---- MODULE Spec2Model ----
(***************************************************************************)
(* The SocialPredict JavaScript SDK: the HTTP client (token, request and   *)
(* response interceptors, verb methods), the error type, the resource      *)
(* base helpers and the resource groups, as a state machine.               *)
(*                                                                         *)
(* JavaScript values are tagged tuples, so that values of different types  *)
(* can be compared: <<"undefined">>, <<"null">>, <<"string", s>>,          *)
(* <<"number", n>>, <<"object", f>> with f a function from property names  *)
(* to values, <<"error", r>> with r the error's fields, <<"date", d, ms>>   *)
(* for a Date, and for the numbers that are no integer of the model the    *)
(* tuples described under Numbers below.                                   *)
(*                                                                         *)
(* A record constructor lists its fields in the order TLC keeps them in,   *)
(* the order in which the names first appear in this module and not the    *)
(* order of the source, so that a record is never reordered once built:    *)
(* TLC's workers share the value of an action's constant argument.         *)
(***************************************************************************)
EXTENDS Integers, Sequences, FiniteSets, TLC

VARIABLES
    config,     \* the axios instance defaults: baseURL, timeout, headers
    token,      \* HttpClient.token
    inflight,   \* the verb calls whose result is not yet with the caller, by slot
    tokenHistory, \* how the token got its value: "none" (constructor, or cleared), "set"
                  \* (setToken), "cleared" (setToken, then cleared), "login" (login)
    last,       \* the most recent operation: what was called (op, args), the
                \* arguments as the call left them (after), and what it did
    peer,       \* a second client of the same process, when there is one: its
                \* config, token, inflight and tokenHistory
    active,     \* the client the variables above belong to: "A" or "B"
    queue       \* the microtask queue of the process: the continuations that are
                \* scheduled, first in first out, each named by the client and the
                \* slot of its request

vars == <<config, token, inflight, tokenHistory, last, peer, active, queue>>

\* what an operation on one client leaves alone
others == <<peer, active>>

(***************************************************************************)
(* Bounds of the model.                                                    *)
(***************************************************************************)
MaxInFlight == 2

Slots == 1..MaxInFlight

(***************************************************************************)
(* JavaScript values.                                                      *)
(***************************************************************************)
Undefined == <<"undefined">>

Null == <<"null">>

Str(s) == <<"string", s>>

Num(n) == <<"number", n>>

Obj(f) == <<"object", f>>

NoProps == [n \in {} |-> Undefined]

IsNullish(v) == v[1] \in {"undefined", "null"}

\* ToBoolean: what `!v`, `v || w` and `if (v)` test
Truthy(v) ==
    CASE v[1] = "undefined" -> FALSE
      [] v[1] = "null" -> FALSE
      [] v[1] = "string" -> v[2] # ""
      [] v[1] = "number" -> v[2] # 0
      [] v[1] = "nan" -> FALSE
      [] OTHER -> TRUE

\* v[name] for a value that is not null or undefined (reading a property of
\* those throws a TypeError, which the callers below decide with IsNullish)
Prop(v, name) ==
    IF v[1] = "object" /\ name \in DOMAIN v[2] THEN v[2][name] ELSE Undefined

\* text[i]
CharAt(text, i) == SubSeq(text, i, i)

\* the first n characters of a text, and the text without them
Take(text, n) == IF n >= Len(text) THEN text ELSE SubSeq(text, 1, n)

Drop(text, n) == IF n >= Len(text) THEN "" ELSE SubSeq(text, n + 1, Len(text))

(***************************************************************************)
(* Dates. A Date is <<"date", day, ms>>: day days and ms milliseconds      *)
(* after the epoch, or <<"date", "invalid">> for an Invalid Date.          *)
(***************************************************************************)
Date(day, ms) == <<"date", day, ms>>

InvalidDate == <<"date", "invalid">>

RECURSIVE Pad(_, _)
Pad(text, width) == IF Len(text) >= width THEN text ELSE Pad("0" \o text, width)

\* the civil date of a day number (proleptic Gregorian calendar)
CivilFromDays(day) ==
    LET z == day + 719468
        era == z \div 146097
        doe == z - era * 146097
        yoe == (doe - doe \div 1460 + doe \div 36524 - doe \div 146096) \div 365
        doy == doe - (365 * yoe + yoe \div 4 - yoe \div 100)
        mp == (5 * doy + 2) \div 153
        d == doy - (153 * mp + 2) \div 5 + 1
        m == IF mp < 10 THEN mp + 3 ELSE mp - 9
        y == yoe + era * 400 + (IF m <= 2 THEN 1 ELSE 0)
    IN  [day |-> d, year |-> y, month |-> m]

\* Date.prototype.toString of a valid Date, in a process whose time zone is UTC
Date_toString(date) ==
    LET WeekDays == <<"Sun", "Mon", "Tue", "Wed", "Thu", "Fri", "Sat">>
        MonthNames == <<"Jan", "Feb", "Mar", "Apr", "May", "Jun",
                        "Jul", "Aug", "Sep", "Oct", "Nov", "Dec">>
        Civil(c, ms) ==
            WeekDays[((date[2] + 4) % 7) + 1] \o " " \o MonthNames[c.month]
            \o " " \o Pad(ToString(c.day), 2)
            \o " " \o (IF c.year < 0 THEN "-" \o Pad(ToString(0 - c.year), 4)
                       ELSE Pad(ToString(c.year), 4))
            \o " " \o Pad(ToString(ms \div 3600000), 2)
            \o ":" \o Pad(ToString((ms \div 60000) % 60), 2)
            \o ":" \o Pad(ToString((ms \div 1000) % 60), 2)
            \o " GMT+0000 (Coordinated Universal Time)"
    IN  Civil(CivilFromDays(date[2]), date[3])

(***************************************************************************)
(* Numbers. <<"number", n>> is the integer n; the other numbers come from  *)
(* ToNumber: <<"ratio", p, q>> is p/q when that is not an integer (q > 1,  *)
(* p and q without a common divisor), <<"time", day, ms>> is the integer   *)
(* day * 86400000 + ms (0 <= ms < 86400000) when it lies beyond the        *)
(* integers of the model, <<"infinity", s>> is s * Infinity, <<"nan">> is  *)
(* NaN.                                                                    *)
(***************************************************************************)
NaN == <<"nan">>

RECURSIVE Power(_, _)
Power(base, n) == IF n = 0 THEN 1 ELSE base * Power(base, n - 1)

RECURSIVE Gcd(_, _)
Gcd(a, b) == IF b = 0 THEN a ELSE Gcd(b, a % b)

\* the least k such that q divides 10^k, for the q of a ratio
RECURSIVE Places(_)
Places(q) == IF q = 1 THEN 0
             ELSE IF q % 10 = 0 THEN 1 + Places(q \div 10)
             ELSE IF q % 2 = 0 THEN 1 + Places(q \div 2)
             ELSE 1 + Places(q \div 5)

\* Number.prototype.toString of |p|/q, a ratio: the digits of the number, with
\* a point, or with an exponent below 0.000001
RatioText(p, q) ==
    LET Digits(digits, k) ==
            IF Len(digits) > k
            THEN Take(digits, Len(digits) - k) \o "." \o Drop(digits, Len(digits) - k)
            ELSE IF k - Len(digits) < 6
            THEN "0." \o Pad(digits, k)
            ELSE Take(digits, 1) \o (IF Len(digits) > 1 THEN "." \o Drop(digits, 1) ELSE "")
                 \o "e-" \o ToString(k - Len(digits) + 1)
    IN  Digits(ToString(p * (Power(10, Places(q)) \div q)), Places(q))

\* Number.prototype.toString of day * 86400000 + ms, an integer beyond those of
\* the model
TimeText(day, ms) ==
    IF day >= 0
    THEN ToString(day * 864 + ms \div 100000) \o Pad(ToString(ms % 100000), 5)
    ELSE LET left == 86400000 - ms
         IN  "-" \o ToString((0 - day - 1) * 864 + left \div 100000)
             \o Pad(ToString(left % 100000), 5)

\* Error.prototype.toString
Error_toString(e) ==
    LET message == IF "message" \in DOMAIN e /\ e.message[1] = "string"
                   THEN e.message[2] ELSE ""
    IN  IF message = "" THEN e.name ELSE e.name \o ": " \o message

\* `${v}` in a template literal, String(v)
Text(v) ==
    CASE v[1] = "undefined" -> "undefined"
      [] v[1] = "null" -> "null"
      [] v[1] = "string" -> v[2]
      [] v[1] = "number" -> ToString(v[2])
      [] v[1] = "date" -> IF v = InvalidDate THEN "Invalid Date" ELSE Date_toString(v)
      [] v[1] = "error" -> Error_toString(v[2])
      [] v[1] = "nan" -> "NaN"
      [] v[1] = "infinity" -> IF v[2] < 0 THEN "-Infinity" ELSE "Infinity"
      [] v[1] = "ratio" -> IF v[2] < 0 THEN "-" \o RatioText(0 - v[2], v[3])
                           ELSE RatioText(v[2], v[3])
      [] v[1] = "time" -> TimeText(v[2], v[3])
      [] OTHER -> "[object Object]"

\* v.length: of a string, or the property of that name
LengthOf(v) == IF v[1] = "string" THEN Num(Len(v[2])) ELSE Prop(v, "length")

\* v || w
Or(v, w) == IF Truthy(v) THEN v ELSE w

(***************************************************************************)
(* ToNumber of a string: StringToNumber, the StringNumericLiteral grammar.  *)
(***************************************************************************)
\* \s of a regular expression, and the characters StringToNumber strips: the
\* white space and line terminators of JavaScript that a string of this module
\* can hold (space, tab, line feed, carriage return, form feed, vertical tab,
\* no-break space, ogham space mark, byte order mark)
IsSpace(c) == c \in {" ", "\t", "\n", "\r", "\f", "", " ", " ", "﻿"}

RECURSIVE TrimStart(_)
TrimStart(text) ==
    IF Len(text) > 0 /\ IsSpace(CharAt(text, 1)) THEN TrimStart(Drop(text, 1)) ELSE text

RECURSIVE TrimEnd(_)
TrimEnd(text) ==
    IF Len(text) > 0 /\ IsSpace(CharAt(text, Len(text)))
    THEN TrimEnd(Take(text, Len(text) - 1))
    ELSE text

\* the value of a digit in a base up to 16, or 16 for any other character
DigitValue(c) ==
    CASE c = "0" -> 0 [] c = "1" -> 1 [] c = "2" -> 2 [] c = "3" -> 3 [] c = "4" -> 4
      [] c = "5" -> 5 [] c = "6" -> 6 [] c = "7" -> 7 [] c = "8" -> 8 [] c = "9" -> 9
      [] c \in {"a", "A"} -> 10 [] c \in {"b", "B"} -> 11 [] c \in {"c", "C"} -> 12
      [] c \in {"d", "D"} -> 13 [] c \in {"e", "E"} -> 14 [] c \in {"f", "F"} -> 15
      [] OTHER -> 16

\* one digit or more, all of the base
IsDigits(text, base) ==
    Len(text) > 0 /\ \A i \in 1..Len(text) : DigitValue(CharAt(text, i)) < base

RECURSIVE NumeralIn(_, _)
NumeralIn(text, base) ==
    IF Len(text) = 0 THEN 0
    ELSE base * NumeralIn(Take(text, Len(text) - 1), base)
         + DigitValue(CharAt(text, Len(text)))

\* the place of the first character of the text that is in the set, or 0
FirstOf(text, chars) ==
    IF \E i \in 1..Len(text) : CharAt(text, i) \in chars
    THEN CHOOSE i \in 1..Len(text) :
             /\ CharAt(text, i) \in chars
             /\ \A j \in 1..(i - 1) : CharAt(text, j) \notin chars
    ELSE 0

\* StrUnsignedDecimalLiteral: digits with an optional point and exponent
DecimalLiteral(text) ==
    LET Lowest(p, q, g) ==
            IF q \div g = 1 THEN Num(p \div g) ELSE <<"ratio", p \div g, q \div g>>
        Scaled(digits, scale, power) ==
            IF digits = 0 THEN Num(0)
            ELSE IF scale >= 0 THEN Num(digits * power)
            ELSE Lowest(digits, power, Gcd(digits, power))
        Digits(whole, part, exponent) ==
            IF ~IsDigits(whole \o part, 10) THEN NaN
            ELSE Scaled(NumeralIn(whole \o part, 10), exponent - Len(part),
                        Power(10, IF exponent >= Len(part) THEN exponent - Len(part)
                                  ELSE Len(part) - exponent))
        Mantissa(mantissa, point, exponent) ==
            Digits(IF point = 0 THEN mantissa ELSE Take(mantissa, point - 1),
                   IF point = 0 THEN "" ELSE Drop(mantissa, point),
                   exponent)
        Exponent(mantissa, sign, power) ==
            IF ~IsDigits(power, 10) THEN NaN
            ELSE Mantissa(mantissa, FirstOf(mantissa, {"."}), sign * NumeralIn(power, 10))
        Signed(mantissa, exponent) ==
            Exponent(mantissa,
                     IF Take(exponent, 1) = "-" THEN -1 ELSE 1,
                     IF Take(exponent, 1) \in {"+", "-"} THEN Drop(exponent, 1) ELSE exponent)
        Literal(e) ==
            Signed(IF e = 0 THEN text ELSE Take(text, e - 1),
                   IF e = 0 THEN "0" ELSE Drop(text, e))
    IN  Literal(FirstOf(text, {"e", "E"}))

StringToNumber(string) ==
    LET Magnitude(unsigned) ==
            IF unsigned = "Infinity" THEN <<"infinity", 1>> ELSE DecimalLiteral(unsigned)
        Negated(x) ==
            CASE x[1] = "number" -> Num(0 - x[2])
              [] x[1] = "ratio" -> <<"ratio", 0 - x[2], x[3]>>
              [] x[1] = "infinity" -> <<"infinity", 0 - x[2]>>
              [] OTHER -> x
        Signed(sign, magnitude) == IF sign = "-" THEN Negated(magnitude) ELSE magnitude
        Based(digits, base) ==
            IF IsDigits(digits, base) THEN Num(NumeralIn(digits, base)) ELSE NaN
        Literal(text) ==
            IF text = "" THEN Num(0)
            ELSE IF Take(text, 2) \in {"0x", "0X", "0o", "0O", "0b", "0B"}
            THEN Based(Drop(text, 2),
                       IF Take(text, 2) \in {"0x", "0X"} THEN 16
                       ELSE IF Take(text, 2) \in {"0o", "0O"} THEN 8 ELSE 2)
            ELSE Signed(Take(text, 1),
                        Magnitude(IF Take(text, 1) \in {"+", "-"} THEN Drop(text, 1)
                                  ELSE text))
    IN  Literal(TrimEnd(TrimStart(string)))

\* ToNumber, for the relational operators; a Date gives its time value
ToNumber(v) ==
    CASE v[1] \in {"number", "ratio", "time", "infinity", "nan"} -> v
      [] v[1] = "null" -> Num(0)
      [] v[1] = "string" -> StringToNumber(v[2])
      [] v[1] = "date" ->
            IF v = InvalidDate THEN NaN
            ELSE IF \/ v[2] \in -24..23
                    \/ v[2] = 24 /\ v[3] <= 73883647
                    \/ v[2] = -25 /\ v[3] >= 12516352
            THEN IF v[2] < 0 THEN Num((v[2] + 1) * 86400000 - (86400000 - v[3]))
                 ELSE Num(v[2] * 86400000 + v[3])
            ELSE <<"time", v[2], v[3]>>
      [] OTHER -> NaN

\* x < y for two numbers
NumberLess(x, y) ==
    LET \* a finite number n as <<d, r, p, q>>: n = d * 86400000 + r + p/q with
        \* 0 <= r < 86400000 and 0 <= p/q < 1
        Parts(n) ==
            CASE n[1] = "number" -> <<n[2] \div 86400000, n[2] % 86400000, 0, 1>>
              [] n[1] = "ratio" ->
                    <<(n[2] \div n[3]) \div 86400000, (n[2] \div n[3]) % 86400000,
                      n[2] % n[3], n[3]>>
              [] n[1] = "time" -> <<n[2], n[3], 0, 1>>
        Below(a, b) ==
            \/ a[1] < b[1]
            \/ a[1] = b[1] /\ a[2] < b[2]
            \/ a[1] = b[1] /\ a[2] = b[2] /\ a[3] * b[4] < b[3] * a[4]
    IN  IF x[1] = "nan" \/ y[1] = "nan" THEN FALSE
        ELSE IF x[1] = "infinity" THEN x[2] < 0 /\ y # x
        ELSE IF y[1] = "infinity" THEN y[2] > 0
        ELSE Below(Parts(x), Parts(y))

\* a < b and a <= b where at least one side is not a string, which is so in
\* every comparison of the code: both sides are converted to numbers, and a
\* comparison with NaN is false
Less(a, b) == NumberLess(ToNumber(a), ToNumber(b))

LessEq(a, b) ==
    LET NotAbove(x, y) == x[1] # "nan" /\ y[1] # "nan" /\ ~NumberLess(y, x)
    IN  NotAbove(ToNumber(a), ToNumber(b))

\* a parameter with a default value: `statusCode = 0`, `params = {}`
Default(v, d) == IF v = Undefined THEN d ELSE v

(***************************************************************************)
(* errors.js: SocialPredictError, and the built-in errors the code throws. *)
(***************************************************************************)
SocialPredictError(message, statusCode, code, data) ==
    <<"error", [name |-> "SocialPredictError", message |-> message,
                statusCode |-> statusCode, code |-> code, data |-> data]>>

\* new Error(message)
Error(message) == <<"error", [name |-> "Error", message |-> message]>>

\* what reading a property of undefined or null throws
TypeError(v, name) ==
    <<"error", [name |-> "TypeError",
                message |-> Str("Cannot read properties of " \o Text(v)
                                \o " (reading '" \o name \o "')")]>>

\* what destructuring a parameter that is undefined or null throws
DestructureError(v, name) ==
    <<"error", [name |-> "TypeError",
                message |-> Str("Cannot destructure property '" \o name \o "' of '"
                                \o (IF v = Null THEN "object null" ELSE Text(v))
                                \o "' as it is " \o Text(v) \o ".")]>>

\* new SocialPredictError(...): `super(message)` leaves the message empty when
\* it is given none and makes a string of any other, and the other parameters
\* have defaults
NewSocialPredictError(message, statusCode, code, data) ==
    SocialPredictError(IF message = Undefined THEN Str("") ELSE Str(Text(message)),
                       Default(statusCode, Num(0)),
                       Default(code, Str("UNKNOWN_ERROR")), Default(data, Null))

IsErrorType(e) == e[1] = "error" /\ e[2].name = "SocialPredictError"

isNetworkError(e) == e[2].code = Str("NETWORK_ERROR")

isAuthError(e) == e[2].statusCode = Num(401) \/ e[2].statusCode = Num(403)

isValidationError(e) == e[2].statusCode = Num(400)

isNotFoundError(e) == e[2].statusCode = Num(404)

\* the variant with `> 500`
isServerError_Above(e) == Less(Num(500), e[2].statusCode)

isServerError(e) == LessEq(Num(500), e[2].statusCode)

(***************************************************************************)
(* http-client.js: HttpClient.                                             *)
(***************************************************************************)
DefaultHeaders == [n \in {"Content-Type"} |-> Str("application/json")]

\* { 'Content-Type': 'application/json', ...options.headers }
SpreadHeaders(base, more) == more @@ base

\* the constructor: this.token and the defaults given to axios.create
HttpClientToken(options) == Or(options.token, Null)

\* the variant without `|| 10000`
HttpClientDefaults_NoDefault(baseURL, options) ==
    [baseURL |-> baseURL,
     timeout |-> options.timeout,
     headers |-> SpreadHeaders(DefaultHeaders, options.headers)]

HttpClientDefaults(baseURL, options) ==
    [baseURL |-> baseURL,
     timeout |-> Or(options.timeout, Num(10000)),
     headers |-> SpreadHeaders(DefaultHeaders, options.headers)]

\* config.headers.Authorization
Header(headers, name) == IF name \in DOMAIN headers THEN headers[name] ELSE Undefined

\* the variant without `&& !config.headers.Authorization`
RequestInterceptor_Overwrite(tok, cfg) ==
    IF Truthy(tok)
    THEN [cfg EXCEPT !.headers =
              ("Authorization" :> Str("Bearer " \o Text(tok))) @@ cfg.headers]
    ELSE cfg

\* the variant that tests the token against null
RequestInterceptor_NotNull(tok, cfg) ==
    IF tok # Null /\ ~Truthy(Header(cfg.headers, "Authorization"))
    THEN [cfg EXCEPT !.headers =
              ("Authorization" :> Str("Bearer " \o Text(tok))) @@ cfg.headers]
    ELSE cfg

\* the request interceptor
RequestInterceptor(tok, cfg) ==
    IF Truthy(tok) /\ ~Truthy(Header(cfg.headers, "Authorization"))
    THEN [cfg EXCEPT !.headers =
              ("Authorization" :> Str("Bearer " \o Text(tok))) @@ cfg.headers]
    ELSE cfg

\* the variant whose second branch tests `error.request` alone
ResponseErrorInterceptor_RequestOnly(error) ==
    IF Truthy(error.response)
    THEN LET status == Prop(error.response, "status")
             data == Prop(error.response, "data")
         IN  IF IsNullish(data)
             THEN TypeError(data, "message")
             ELSE NewSocialPredictError(
                      Or(Prop(data, "message"), Str("HTTP " \o Text(status) \o " Error")),
                      status, Or(Prop(data, "error"), Str("API_ERROR")), data)
    ELSE IF Truthy(error.request)
    THEN NewSocialPredictError(Str("Network error - unable to reach server"),
                               Num(0), Str("NETWORK_ERROR"), Undefined)
    ELSE NewSocialPredictError(Or(error.message, Str("Unexpected error")),
                               Num(0), Str("UNKNOWN_ERROR"), Undefined)

\* the response interceptor's rejection handler: what it throws for an axios error
ResponseErrorInterceptor(error) ==
    IF Truthy(error.response)
    THEN LET status == Prop(error.response, "status")
             data == Prop(error.response, "data")
         IN  IF IsNullish(data)
             THEN TypeError(data, "message")
             ELSE NewSocialPredictError(
                      Or(Prop(data, "message"), Str("HTTP " \o Text(status) \o " Error")),
                      status,
                      Or(Prop(data, "error"), Str("API_ERROR")),
                      data)
    ELSE IF \/ Truthy(error.request)
            \/ error.code = Str("ECONNABORTED")
            \/ error.message = Str("Network Error")
    THEN NewSocialPredictError(Str("Network error - unable to reach server"),
                               Num(0), Str("NETWORK_ERROR"), Undefined)
    ELSE NewSocialPredictError(Or(error.message, Str("Unexpected error")),
                               Num(0), Str("UNKNOWN_ERROR"), Undefined)

\* the request configuration a verb method hands to axios, before the interceptors
VerbConfig(verb, path, payload) ==
    [headers |-> config.headers, payload |-> payload, method |-> verb, url |-> path]

HttpClient_get(path, params) == VerbConfig("get", path, Default(params, Obj(NoProps)))

HttpClient_post(path, data) == VerbConfig("post", path, Default(data, Obj(NoProps)))

HttpClient_put(path, data) == VerbConfig("put", path, Default(data, Obj(NoProps)))

HttpClient_patch(path, data) == VerbConfig("patch", path, Default(data, Obj(NoProps)))

HttpClient_delete(path) == VerbConfig("delete", path, Undefined)

(***************************************************************************)
(* What axios does with a request once it is sent: the events that settle  *)
(* it, and the promise outcome the verb method sees.                       *)
(***************************************************************************)
Response(status, data) == <<"response", Obj([data |-> data, status |-> status])>>

Failure(error) == <<"failure", error>>

\* axios' default validateStatus
ValidateStatus(status) == LessEq(Num(200), status) /\ Less(status, Num(300))

\* the error axios rejects with for a response that fails validateStatus
AxiosResponseError(response) ==
    [message |-> Str("Request failed with status code " \o Text(Prop(response, "status"))),
     code |-> IF Less(Prop(response, "status"), Num(500))
              THEN Str("ERR_BAD_REQUEST") ELSE Str("ERR_BAD_RESPONSE"),
     response |-> response,
     request |-> Obj(NoProps)]

\* the error of an elapsed timeout; its request is set by the real adapters and
\* left unset by the mock adapter the tests use
AxiosTimeoutError(request) ==
    [message |-> Str("timeout of " \o Text(config.timeout) \o "ms exceeded"),
     code |-> Str("ECONNABORTED"), response |-> Undefined, request |-> request]

Return(v) == <<"return", v>>

Throw(e) == <<"throw", e>>

\* a resource method reaches `await this.client.verb(...)` with this request
Await(cfg) == <<"await", cfg>>

\* how the promise of `this.client.verb(...)` settles, the response interceptors
\* applied: fulfilled with the response, or rejected with what the error
\* interceptor throws
AxiosOutcome(event) ==
    IF event[1] = "response" /\ ValidateStatus(Prop(event[2], "status"))
    THEN Return(event[2])
    ELSE IF event[1] = "response"
    THEN Throw(ResponseErrorInterceptor(AxiosResponseError(event[2])))
    ELSE Throw(ResponseErrorInterceptor(event[2]))

\* async get/post/put/patch/delete after `const response = await
\* this.client.verb(...)`: `return response.data`, or the rejection thrown on
verb_resume(outcome) ==
    IF outcome[1] = "return" THEN Return(Prop(outcome[2], "data")) ELSE outcome

\* what a verb method returns or throws for an event
VerbOutcome(event) == verb_resume(AxiosOutcome(event))

(***************************************************************************)
(* resources/base.js: BaseResource.                                        *)
(***************************************************************************)
Ok == <<"ok">>

\* Array.prototype.join
RECURSIVE Join(_, _)
Join(names, sep) ==
    IF Len(names) = 0 THEN ""
    ELSE IF Len(names) = 1 THEN names[1]
    ELSE names[1] \o sep \o Join(Tail(names), sep)

IsMissing(params, param) == Prop(params, param) = Undefined \/ Prop(params, param) = Null

\* the variant that stops at the first missing parameter
validateRequired_First(params, required) ==
    IF IsNullish(params) /\ Len(required) > 0
    THEN Throw(TypeError(params, required[1]))
    ELSE LET missing == SelectSeq(required, LAMBDA param : IsMissing(params, param))
         IN  IF Len(missing) > 0
             THEN Throw(Error(Str("Missing required parameters: " \o missing[1])))
             ELSE Ok

\* validateRequired(params, required): Ok, or what it throws
validateRequired(params, required) ==
    IF IsNullish(params) /\ Len(required) > 0
    THEN Throw(TypeError(params, required[1]))
    ELSE LET missing == SelectSeq(required, LAMBDA param : IsMissing(params, param))
         IN  IF Len(missing) > 0
             THEN Throw(Error(Str("Missing required parameters: " \o Join(missing, ", "))))
             ELSE Ok

YearText(y) ==
    IF y >= 0 /\ y <= 9999 THEN Pad(ToString(y), 4)
    ELSE IF y < 0 THEN "-" \o Pad(ToString(0 - y), 6)
    ELSE "+" \o Pad(ToString(y), 6)

\* the variant that stops at the seconds
toISOString_Seconds(date) ==
    LET c == CivilFromDays(date[2])
        ms == date[3]
    IN  YearText(c.year) \o "-" \o Pad(ToString(c.month), 2) \o "-" \o Pad(ToString(c.day), 2)
        \o "T" \o Pad(ToString(ms \div 3600000), 2)
        \o ":" \o Pad(ToString((ms \div 60000) % 60), 2)
        \o ":" \o Pad(ToString((ms \div 1000) % 60), 2) \o "Z"

\* Date.prototype.toISOString of a valid Date
toISOString(date) ==
    LET c == CivilFromDays(date[2])
        ms == date[3]
    IN  YearText(c.year) \o "-" \o Pad(ToString(c.month), 2) \o "-" \o Pad(ToString(c.day), 2)
        \o "T" \o Pad(ToString(ms \div 3600000), 2)
        \o ":" \o Pad(ToString((ms \div 60000) % 60), 2)
        \o ":" \o Pad(ToString((ms \div 1000) % 60), 2)
        \o "." \o Pad(ToString(ms % 1000), 3) \o "Z"

\* formatDate(date): Return(the formatted value), or what toISOString throws
formatDate(date) ==
    IF date[1] = "date"
    THEN IF date = InvalidDate
         THEN Throw(<<"error", [name |-> "RangeError", message |-> Str("Invalid time value")]>>)
         ELSE Return(Str(toISOString(date)))
    ELSE Return(date)

(***************************************************************************)
(* resources/auth.js: AuthResource.login up to its await.                  *)
(***************************************************************************)
\* the variant without the check of the password
login_AnyPassword(credentials) ==
    LET v == validateRequired(credentials, <<"username", "password">>)
        username == Prop(credentials, "username")
    IN  IF v # Ok THEN v
        ELSE IF \/ Less(LengthOf(username), Num(3))
                \/ Less(Num(30), LengthOf(username))
        THEN Throw(Error(Str("Username must be between 3 and 30 characters")))
        ELSE Await(HttpClient_post(Str("/v0/login"), credentials))

login(credentials) ==
    LET v == validateRequired(credentials, <<"username", "password">>)
        username == Prop(credentials, "username")
        password == Prop(credentials, "password")
    IN  IF v # Ok THEN v
        ELSE IF \/ Less(LengthOf(username), Num(3))
                \/ Less(Num(30), LengthOf(username))
        THEN Throw(Error(Str("Username must be between 3 and 30 characters")))
        ELSE IF Less(LengthOf(password), Num(1))
        THEN Throw(Error(Str("Password must be at least 1 character")))
        ELSE Await(HttpClient_post(Str("/v0/login"), credentials))

(***************************************************************************)
(* resources/betting.js: BettingResource.                                  *)
(***************************************************************************)
\* the variant without the check of the amount
placeBet_AnyAmount(betData) ==
    LET v == validateRequired(betData, <<"marketId", "amount", "outcome">>)
    IN  IF v # Ok THEN v
        ELSE Await(HttpClient_post(Str("/v0/bet"), betData))

placeBet(betData) ==
    LET v == validateRequired(betData, <<"marketId", "amount", "outcome">>)
    IN  IF v # Ok THEN v
        ELSE IF LessEq(Prop(betData, "amount"), Num(0))
        THEN Throw(Error(Str("Bet amount must be greater than 0")))
        ELSE Await(HttpClient_post(Str("/v0/bet"), betData))

getUserPosition(marketId) ==
    IF ~Truthy(marketId)
    THEN Throw(Error(Str("Market ID is required")))
    ELSE Await(HttpClient_get(Str("/v0/userposition/" \o Text(marketId)), Undefined))

\* the variant with `< 0`
sellPosition_Negative(sellData) ==
    LET v == validateRequired(sellData, <<"marketId", "amount", "outcome">>)
    IN  IF v # Ok THEN v
        ELSE IF Less(Prop(sellData, "amount"), Num(0))
        THEN Throw(Error(Str("Sell amount must be greater than 0")))
        ELSE Await(HttpClient_post(Str("/v0/sell"), sellData))

sellPosition(sellData) ==
    LET v == validateRequired(sellData, <<"marketId", "amount", "outcome">>)
    IN  IF v # Ok THEN v
        ELSE IF LessEq(Prop(sellData, "amount"), Num(0))
        THEN Throw(Error(Str("Sell amount must be greater than 0")))
        ELSE Await(HttpClient_post(Str("/v0/sell"), sellData))

(***************************************************************************)
(* resources/admin.js: AdminResource.                                      *)
(***************************************************************************)
\* /^[^\s@]+@[^\s@]+\.[^\s@]+$/.test(text)
emailRegexTest(text) ==
    \E at \in 2..Len(text), dot \in 4..(Len(text) - 1) :
        /\ at + 1 < dot
        /\ CharAt(text, at) = "@"
        /\ CharAt(text, dot) = "."
        /\ \A i \in 1..Len(text) :
               i # at => ~IsSpace(CharAt(text, i)) /\ CharAt(text, i) # "@"

createUser(userData) ==
    LET v == validateRequired(userData,
                 <<"username", "displayName", "email", "password", "userType">>)
    IN  IF v # Ok THEN v
        ELSE IF ~emailRegexTest(Text(Prop(userData, "email")))
        THEN Throw(Error(Str("Invalid email format")))
        ELSE Await(HttpClient_post(Str("/v0/admin/createuser"), userData))

(***************************************************************************)
(* resources/markets.js: MarketsResource.                                  *)
(***************************************************************************)
markets_list == Await(HttpClient_get(Str("/v0/markets"), Undefined))

markets_search(query) ==
    IF ~Truthy(query)
    THEN Throw(Error(Str("Search query is required")))
    ELSE Await(HttpClient_get(Str("/v0/markets/search"), Obj([q |-> query])))

markets_listActive == Await(HttpClient_get(Str("/v0/markets/active"), Undefined))

markets_listClosed == Await(HttpClient_get(Str("/v0/markets/closed"), Undefined))

markets_listResolved == Await(HttpClient_get(Str("/v0/markets/resolved"), Undefined))

markets_get(marketId) ==
    IF ~Truthy(marketId)
    THEN Throw(Error(Str("Market ID is required")))
    ELSE Await(HttpClient_get(Str("/v0/markets/" \o Text(marketId)), Undefined))

markets_projectProbability(params) ==
    LET marketId == Prop(params, "marketId")
        amount == Prop(params, "amount")
        outcome == Prop(params, "outcome")
        v == validateRequired(
                 Obj([outcome |-> outcome, marketId |-> marketId, amount |-> amount]),
                 <<"marketId", "amount", "outcome">>)
    IN  IF IsNullish(params) THEN Throw(DestructureError(params, "marketId"))
        ELSE IF v # Ok THEN v
        ELSE Await(HttpClient_get(
                 Str("/v0/marketprojection/" \o Text(marketId) \o "/" \o Text(amount)
                     \o "/" \o Text(outcome) \o "/"),
                 Undefined))

markets_getBets(marketId) ==
    IF ~Truthy(marketId)
    THEN Throw(Error(Str("Market ID is required")))
    ELSE Await(HttpClient_get(Str("/v0/markets/bets/" \o Text(marketId)), Undefined))

markets_getPositions(marketId) ==
    IF ~Truthy(marketId)
    THEN Throw(Error(Str("Market ID is required")))
    ELSE Await(HttpClient_get(Str("/v0/markets/positions/" \o Text(marketId)), Undefined))

markets_getUserPositions(marketId, username) ==
    LET v == validateRequired(Obj([username |-> username, marketId |-> marketId]),
                              <<"marketId", "username">>)
    IN  IF v # Ok THEN v
        ELSE Await(HttpClient_get(
                 Str("/v0/markets/positions/" \o Text(marketId) \o "/" \o Text(username)),
                 Undefined))

markets_getLeaderboard(marketId) ==
    IF ~Truthy(marketId)
    THEN Throw(Error(Str("Market ID is required")))
    ELSE Await(HttpClient_get(Str("/v0/markets/leaderboard/" \o Text(marketId)), Undefined))

\* the variant that formats the date in the object it was given and posts that
markets_create_InPlace(marketData) ==
    LET v == validateRequired(marketData,
                 <<"questionTitle", "description", "outcomeType", "resolutionDateTime">>)
        formatted == formatDate(Prop(marketData, "resolutionDateTime"))
    IN  IF v # Ok THEN v
        ELSE IF formatted[1] = "throw" THEN formatted
        ELSE <<"await",
               HttpClient_post(
                   Str("/v0/create"),
                   Obj(("resolutionDateTime" :> formatted[2]) @@ marketData[2])),
               <<<<1, "resolutionDateTime", formatted[2]>>>>>>

\* `{ ...marketData, resolutionDateTime: ... }` is a new object
markets_create(marketData) ==
    LET v == validateRequired(marketData,
                 <<"questionTitle", "description", "outcomeType", "resolutionDateTime">>)
        formatted == formatDate(Prop(marketData, "resolutionDateTime"))
    IN  IF v # Ok THEN v
        ELSE IF formatted[1] = "throw" THEN formatted
        ELSE Await(HttpClient_post(
                 Str("/v0/create"),
                 Obj(("resolutionDateTime" :> formatted[2]) @@ marketData[2])))

markets_resolve(marketId, resolutionResult) ==
    LET v == validateRequired(
                 Obj([marketId |-> marketId, resolutionResult |-> resolutionResult]),
                 <<"marketId", "resolutionResult">>)
    IN  IF v # Ok THEN v
        ELSE Await(HttpClient_post(Str("/v0/resolve/" \o Text(marketId)),
                                   Obj([resolutionResult |-> resolutionResult])))

(***************************************************************************)
(* resources/users.js: UsersResource.                                      *)
(***************************************************************************)
users_getPublicInfo(username) ==
    IF ~Truthy(username)
    THEN Throw(Error(Str("Username is required")))
    ELSE Await(HttpClient_get(Str("/v0/userinfo/" \o Text(username)), Undefined))

users_getCredit(username) ==
    IF ~Truthy(username)
    THEN Throw(Error(Str("Username is required")))
    ELSE Await(HttpClient_get(Str("/v0/usercredit/" \o Text(username)), Undefined))

users_getPortfolio(username) ==
    IF ~Truthy(username)
    THEN Throw(Error(Str("Username is required")))
    ELSE Await(HttpClient_get(Str("/v0/portfolio/" \o Text(username)), Undefined))

users_getFinancial(username) ==
    IF ~Truthy(username)
    THEN Throw(Error(Str("Username is required")))
    ELSE Await(HttpClient_get(Str("/v0/users/" \o Text(username) \o "/financial"), Undefined))

users_getPrivateProfile == Await(HttpClient_get(Str("/v0/privateprofile"), Undefined))

users_changePassword(passwordData) ==
    LET v == validateRequired(passwordData, <<"newPassword">>)
    IN  IF v # Ok THEN v
        ELSE Await(HttpClient_post(Str("/v0/changepassword"), passwordData))

users_changeDisplayName(displayName) ==
    IF ~Truthy(displayName)
    THEN Throw(Error(Str("Display name is required")))
    ELSE Await(HttpClient_post(Str("/v0/profilechange/displayname"),
                               Obj([displayName |-> displayName])))

users_changeEmoji(emoji) ==
    IF ~Truthy(emoji)
    THEN Throw(Error(Str("Emoji is required")))
    ELSE Await(HttpClient_post(Str("/v0/profilechange/emoji"), Obj([emoji |-> emoji])))

users_changeDescription(description) ==
    IF ~Truthy(description)
    THEN Throw(Error(Str("Description is required")))
    ELSE Await(HttpClient_post(Str("/v0/profilechange/description"),
                               Obj([description |-> description])))

\* typeof v
TypeOf(v) ==
    IF v[1] \in {"null", "date", "error"} THEN "object"
    ELSE IF v[1] \in {"ratio", "time", "infinity", "nan"} THEN "number"
    ELSE v[1]

users_changePersonalLinks(links) ==
    IF ~Truthy(links) \/ TypeOf(links) # "object"
    THEN Throw(Error(Str("Links object is required")))
    ELSE Await(HttpClient_post(Str("/v0/profilechange/links"), links))

(***************************************************************************)
(* resources/config.js: ConfigResource.                                    *)
(***************************************************************************)
config_getHome == Await(HttpClient_get(Str("/v0/home"), Undefined))

config_getSetup == Await(HttpClient_get(Str("/v0/setup"), Undefined))

config_getStats == Await(HttpClient_get(Str("/v0/stats"), Undefined))

config_getSystemMetrics == Await(HttpClient_get(Str("/v0/system/metrics"), Undefined))

config_getGlobalLeaderboard == Await(HttpClient_get(Str("/v0/global/leaderboard"), Undefined))

(***************************************************************************)
(* The inputs of the model.                                                *)
(***************************************************************************)
NoHeaders == [n \in {} |-> Undefined]

\* new SocialPredictClient(baseURL, options)
ConstructorArgs ==
    { <<Undefined, [token |-> Undefined, timeout |-> Undefined, headers |-> NoHeaders]>>,
      <<Str("https://api.example.com"),
        [token |-> Str("test-token"), timeout |-> Num(15000),
         headers |-> [n \in {"X-Custom", "Authorization"} |->
                         IF n = "X-Custom" THEN Str("value") ELSE Str("Basic dXNlcjpwYXNz")]]>>,
      <<Str("http://localhost:8080"),
        [token |-> Str("test-token"), timeout |-> Num(0),
         headers |-> [n \in {"Authorization"} |-> Str("")]]>> }

\* the tokens given to setToken
Tokens == {Str("test-token"), Str(""), Num(0), Date(0, 0)}

\* the responses of the server: status and parsed body
Responses ==
    { <<Num(200), Obj([success |-> Str("true")])>>,
      <<Num(200), Obj([token |-> Str("jwt-token-123"), username |-> Str("testuser")])>>,
      <<Num(200), Obj([token |-> Str(""), username |-> Str("testuser")])>>,
      <<Num(200), Null>>,
      <<Num(201), Obj([id |-> Num(123)])>>,
      <<Num(204), Undefined>>,
      <<Num(204), Str("")>>,
      <<Num(400), Obj([message |-> Str("Invalid data"), error |-> Str("VALIDATION_ERROR")])>>,
      <<Num(401), Obj([message |-> Str("Invalid username or password"),
                       error |-> Str("INVALID_CREDENTIALS")])>>,
      <<Num(403), Obj([message |-> Str(""), error |-> Str("")])>>,
      <<Num(404), Str("")>>,
      <<Num(500), Undefined>>,
      <<Num(502), Null>>,
      <<Num(503), Obj([message |-> Str("upstream unreachable"), error |-> Str("NETWORK_ERROR")])>> }

\* failures in which no response reaches the client: connection refused and DNS
\* failure (the adapter's request is set), an aborted request, and the mock
\* adapter's networkError(), which sets no request
TransportFailures ==
    { [message |-> Str("connect ECONNREFUSED 127.0.0.1:8080"), code |-> Str("ECONNREFUSED"),
       response |-> Undefined, request |-> Obj(NoProps)],
      [message |-> Str("getaddrinfo ENOTFOUND api.example.com"), code |-> Str("ENOTFOUND"),
       response |-> Undefined, request |-> Obj(NoProps)],
      [message |-> Str("Request aborted"), code |-> Str("ECONNABORTED"), response |-> Undefined,
       request |-> Undefined],
      [message |-> Str("Network Error"), code |-> Undefined, response |-> Undefined,
       request |-> Undefined] }

\* failures that are neither: raised before anything is sent
OtherFailures ==
    { [message |-> Str("Unsupported protocol ftp:"), code |-> Str("ERR_BAD_OPTION"),
       response |-> Undefined, request |-> Undefined],
      [message |-> Str(""), code |-> Undefined, response |-> Undefined, request |-> Undefined] }

(***************************************************************************)
(* The state machine.                                                      *)
(***************************************************************************)
Empty == <<"empty">>

NoRequest == <<"none">>

NoOutcome == <<"none">>

\* a slot is empty, or holds a call at one of its stages:
\*   "called"    the verb has handed the request to axios, whose request
\*               interceptor runs in a later microtask
\*   "request"   the interceptor has run and the request is with the server
\*   "settled"   the promise of axios is fulfilled or rejected
\*   "returned"  the verb method has resumed and returned or thrown
\*   "resumed"   the resource method that awaited the verb has resumed
\* and is emptied when the caller that awaited the call resumes.

\* a call the interceptor has not seen: who awaits it, and the headers of its
\* config, the one part of the config the interceptor reads or writes
Called(caller, cfg) == <<"called", [headers |-> cfg.headers, caller |-> caller]>>

InFlight(caller, sent) ==
    <<"request", [caller |-> caller,
                  Authorization |-> Header(sent.headers, "Authorization")]>>

\* a call past the server: the event that settled it and the outcome the
\* continuation scheduled next will be given
Pending(stage, caller, event, outcome) ==
    <<stage, [event |-> event, outcome |-> outcome, caller |-> caller]>>

\* no second client
NoPeer == [absent |-> TRUE]

Init ==
    \E args \in ConstructorArgs :
        /\ config = HttpClientDefaults(Default(args[1], Str("http://localhost:8080")), args[2])
        /\ token = HttpClientToken(args[2])
        /\ inflight = [s \in Slots |-> Empty]
        /\ tokenHistory = "none"
        /\ last = [request |-> NoRequest, outcome |-> NoOutcome, caller |-> "none",
                   args |-> args, op |-> "constructor", after |-> args, kind |-> "done"]
        /\ peer = NoPeer
        /\ active = "A"
        /\ queue = <<>>

\* run to completion: a synchronous operation of the caller, or a continuation
\* taken from the microtask queue, ends before the next one starts
Idle == [request |-> NoRequest, outcome |-> NoOutcome, caller |-> "none", args |-> <<>>,
         op |-> "idle", after |-> <<>>, kind |-> "idle"]

Ready == last = Idle

FreeSlot(s) == inflight[s] = Empty /\ \A r \in Slots : r < s => inflight[r] # Empty

\* the arguments of the caller once a method has run up to its await or its
\* throw. Objects are passed by reference: an assignment `param.name = value`
\* in a method shows in the object of the caller. A step carries the
\* assignments the method has made to the objects it was given as a third
\* component, <<position of the parameter, name, value>> in their order; a
\* step of two components comes from a method that made none
ArgumentsAfter(args, step) ==
    LET Left(writes) ==
            LET left[i \in 0..Len(writes)] ==
                    IF i = 0 THEN args
                    ELSE [left[i - 1] EXCEPT ![writes[i][1]] =
                             Obj((writes[i][2] :> writes[i][3])
                                     @@ left[i - 1][writes[i][1]][2])]
            IN  left[Len(writes)]
    IN  Left(IF Len(step) > 2 THEN step[3] ELSE <<>>)

\* the continuation at the head of the microtask queue is that of a call of the
\* client in use, at this stage
Scheduled(stage) ==
    /\ queue # <<>>
    /\ Head(queue)[1] = active
    /\ inflight[Head(queue)[2]][1] = stage

\* a verb method is entered and calls `this.client.verb(...)`: axios merges the
\* config and returns its promise, the verb awaits it and the promise of the
\* verb is with the caller. The request interceptor has not run.
Send(op, caller, args, after, cfg) ==
    /\ Ready
    /\ \E s \in Slots :
        /\ FreeSlot(s)
        /\ inflight' = [inflight EXCEPT ![s] = Called(caller, cfg)]
        /\ queue' = Append(queue, <<active, s>>)
    /\ last' = [request |-> <<"config", cfg>>, outcome |-> NoOutcome,
                caller |-> caller, args |-> args, op |-> op,
                after |-> after, kind |-> "called"]
    /\ UNCHANGED <<config, token, tokenHistory, others>>

\* the request interceptor runs, in a microtask after the call: it reads the
\* token as it is now, and the request is sent
Intercept ==
    /\ Ready
    /\ Scheduled("called")
    /\ LET s == Head(queue)[2]
           call == inflight[s][2]
           sent == RequestInterceptor(token, [headers |-> call.headers])
       IN  /\ inflight' = [inflight EXCEPT ![s] = InFlight(call.caller, sent)]
           /\ last' = [request |-> <<"request", sent>>, outcome |-> NoOutcome,
                       caller |-> call.caller, args |-> <<>>, op |-> "interceptor",
                       after |-> <<>>, kind |-> "sent"]
    /\ queue' = Tail(queue)
    /\ UNCHANGED <<config, token, tokenHistory, others>>

\* a resource method throws before it calls the HttpClient
Reject(op, caller, args, after, e) ==
    /\ Ready
    /\ last' = [request |-> NoRequest, outcome |-> Throw(e), caller |-> caller, args |-> args,
                op |-> op, after |-> after, kind |-> "threw"]
    /\ UNCHANGED <<config, token, inflight, tokenHistory, others, queue>>

\* a resource method up to its await: step is Throw(e) or <<"await", cfg>>
Perform(op, caller, args, step) ==
    /\ Ready
    /\ IF step[1] = "throw"
       THEN Reject(op, caller, args, ArgumentsAfter(args, step), step[2])
       ELSE Send(op, caller, args, ArgumentsAfter(args, step), step[2])

(***************************************************************************)
(* Token management: HttpClient.setToken / clearToken, and the passthroughs *)
(* of SocialPredictClient and AuthResource.                                *)
(***************************************************************************)
Entries == {"HttpClient", "SocialPredictClient", "AuthResource"}

\* the variant that keeps the token in one place for all clients of the process
TokenOp_Shared(op, args, newToken, newHistory) ==
    /\ Ready
    /\ token' = newToken
    /\ tokenHistory' = newHistory
    /\ last' = [request |-> NoRequest, outcome |-> NoOutcome, caller |-> "none", args |-> args,
                op |-> op, after |-> args, kind |-> "done"]
    /\ peer' = IF peer = NoPeer THEN peer ELSE [peer EXCEPT !.token = newToken]
    /\ UNCHANGED <<config, inflight, active, queue>>

\* a synchronous token operation: assigns this.token of the one client it is called on
TokenOp(op, args, newToken, newHistory) ==
    /\ Ready
    /\ token' = newToken
    /\ tokenHistory' = newHistory
    /\ last' = [request |-> NoRequest, outcome |-> NoOutcome, caller |-> "none", args |-> args,
                op |-> op, after |-> args, kind |-> "done"]
    /\ UNCHANGED <<config, inflight, others, queue>>

\* the variant that keeps the token when given an empty one
HttpClient_setToken_Truthy(t) == IF Truthy(t) THEN t ELSE token

HttpClient_setToken(t) == t

\* the variant of clearToken that leaves the token
HttpClient_clearToken_Keep == token

HttpClient_clearToken == Null

SetToken ==
    \E via \in Entries, t \in Tokens :
        TokenOp(via \o ".setToken", <<t>>, HttpClient_setToken(t), "set")

ClearedHistory == IF tokenHistory \in {"set", "cleared"} THEN "cleared" ELSE "none"

ClearToken ==
    \E via \in {"HttpClient", "SocialPredictClient"} :
        TokenOp(via \o ".clearToken", <<>>, HttpClient_clearToken, ClearedHistory)

Logout == TokenOp("AuthResource.logout", <<>>, HttpClient_clearToken, ClearedHistory)

\* SocialPredictClient.getToken() and isAuthenticated()
getToken == token

\* the variant that compares the token with null
isAuthenticated_NotNull == token # Null

isAuthenticated == Truthy(token)

\* AuthResource.getToken(): `this.client.token`
AuthResource_getToken == token

\* the variant that compares with null
AuthResource_isAuthenticated_NotNull == token # Null

\* AuthResource.isAuthenticated(): `!!this.client.token`
AuthResource_isAuthenticated == Truthy(token)

(***************************************************************************)
(* The verb methods called directly.                                       *)
(***************************************************************************)
Paths == {Str("/test"), Str("/resource/1")}

Payloads == {Undefined, Obj([name |-> Str("updated")])}

Get ==
    \E path \in Paths, params \in {Undefined, Obj([q |-> Str("search")])} :
        Send("HttpClient.get", "direct", <<path, params>>, <<path, params>>,
             HttpClient_get(path, params))

Post ==
    \E path \in Paths, data \in Payloads :
        Send("HttpClient.post", "direct", <<path, data>>, <<path, data>>,
             HttpClient_post(path, data))

Put ==
    \E path \in Paths, data \in Payloads :
        Send("HttpClient.put", "direct", <<path, data>>, <<path, data>>,
             HttpClient_put(path, data))

Patch ==
    \E path \in Paths, data \in Payloads :
        Send("HttpClient.patch", "direct", <<path, data>>, <<path, data>>,
             HttpClient_patch(path, data))

Delete ==
    \E path \in Paths :
        Send("HttpClient.delete", "direct", <<path>>, <<path>>,
             HttpClient_delete(path))

(***************************************************************************)
(* A request settles, and its result makes its way to the caller: the verb *)
(* method that awaited axios resumes, then the resource method that        *)
(* awaited the verb, then the caller that awaited either. Each resumes in  *)
(* a microtask of its own, and the microtasks of the process run first in  *)
(* first out.                                                              *)
(***************************************************************************)
\* the variant of login that never stores the token of the response
login_resume_NoStore(outcome, tok) ==
    IF outcome[1] = "throw"
    THEN [token |-> tok, outcome |-> outcome, set |-> FALSE]
    ELSE IF IsNullish(outcome[2])
    THEN [token |-> tok, outcome |-> Throw(TypeError(outcome[2], "token")), set |-> FALSE]
    ELSE [token |-> tok, outcome |-> outcome, set |-> FALSE]

\* the variant of login that drops the token when the request fails
login_resume_Forget(outcome, tok) ==
    IF outcome[1] = "throw"
    THEN [token |-> Null, outcome |-> outcome, set |-> FALSE]
    ELSE IF IsNullish(outcome[2])
    THEN [token |-> tok, outcome |-> Throw(TypeError(outcome[2], "token")), set |-> FALSE]
    ELSE IF Truthy(Prop(outcome[2], "token"))
    THEN [token |-> HttpClient_setToken(Prop(outcome[2], "token")), outcome |-> outcome,
          set |-> TRUE]
    ELSE [token |-> tok, outcome |-> outcome, set |-> FALSE]

\* AuthResource.login after `await this.client.post(...)`: the token it leaves
\* and what it returns or throws
login_resume(outcome, tok) ==
    IF outcome[1] = "throw"
    THEN [token |-> tok, outcome |-> outcome, set |-> FALSE]
    ELSE IF IsNullish(outcome[2])
    THEN [token |-> tok, outcome |-> Throw(TypeError(outcome[2], "token")), set |-> FALSE]
    ELSE IF Truthy(Prop(outcome[2], "token"))
    THEN [token |-> HttpClient_setToken(Prop(outcome[2], "token")), outcome |-> outcome,
          set |-> TRUE]
    ELSE [token |-> tok, outcome |-> outcome, set |-> FALSE]

\* the variant that catches what the verb throws and throws a new Error for it
resource_resume_Wrap(outcome, tok) ==
    [token |-> tok,
     outcome |-> IF outcome[1] = "throw" /\ IsErrorType(outcome[2])
                 THEN Throw(Error(outcome[2][2].message))
                 ELSE outcome,
     set |-> FALSE]

\* every other resource method: `return await this.client.verb(...)`
resource_resume(outcome, tok) == [token |-> tok, outcome |-> outcome, set |-> FALSE]

\* the method that awaited the verb: login ("login") or another resource
\* method ("resource")
Resume(caller, outcome, tok) ==
    IF caller = "login"
    THEN login_resume(outcome, tok)
    ELSE resource_resume(outcome, tok)

\* what a step leaves with its caller
KindOf(outcome) == IF outcome[1] = "return" THEN "returned" ELSE "threw"

\* the variant that sends a failed request again instead of giving it up
Settle_Retry(s, event) ==
    /\ Ready
    /\ inflight[s][1] = "request"
    /\ LET Settled(caller, outcome) ==
               /\ inflight' = IF outcome[1] = "throw"
                              THEN inflight
                              ELSE [inflight EXCEPT
                                        ![s] = Pending("settled", caller, event, outcome)]
               /\ queue' = IF outcome[1] = "throw" THEN queue
                           ELSE Append(queue, <<active, s>>)
               /\ last' = [request |-> NoRequest, outcome |-> outcome, caller |-> caller,
                           args |-> <<event>>, op |-> "settle", after |-> <<event>>,
                           kind |-> IF outcome[1] = "return" THEN "fulfilled"
                                    ELSE "rejected"]
       IN  Settled(inflight[s][2].caller, AxiosOutcome(event))
    /\ UNCHANGED <<config, token, tokenHistory, others>>

\* a response or a failure reaches axios for a request that is with the server:
\* the response interceptors run and the promise the verb awaits settles. The
\* verb resumes in a later microtask.
Settle(s, event) ==
    /\ Ready
    /\ inflight[s][1] = "request"
    /\ LET Settled(caller, outcome) ==
               /\ inflight' = [inflight EXCEPT
                                   ![s] = Pending("settled", caller, event, outcome)]
               /\ queue' = Append(queue, <<active, s>>)
               /\ last' = [request |-> NoRequest, outcome |-> outcome, caller |-> caller,
                           args |-> <<event>>, op |-> "settle", after |-> <<event>>,
                           kind |-> IF outcome[1] = "return" THEN "fulfilled"
                                    ELSE "rejected"]
       IN  Settled(inflight[s][2].caller, AxiosOutcome(event))
    /\ UNCHANGED <<config, token, tokenHistory, others>>

Respond == \E s \in Slots, r \in Responses : Settle(s, Response(r[1], r[2]))

TransportFailure == \E s \in Slots, e \in TransportFailures : Settle(s, Failure(e))

OtherFailure == \E s \in Slots, e \in OtherFailures : Settle(s, Failure(e))

\* the timeout given to axios.create elapses on a request in flight: axios aborts
\* the request after config.timeout milliseconds, and never when the timeout is
\* 0 or not a number
Timeout(s) ==
    /\ config.timeout[1] = "number"
    /\ config.timeout[2] > 0
    /\ \E request \in {Obj(NoProps), Undefined} :
           Settle(s, Failure(AxiosTimeoutError(request)))

TimeoutElapses == \E s \in Slots : Timeout(s)

\* the verb method resumes after its await and returns `response.data`, or the
\* rejection is thrown out of it; what awaits the verb resumes in a later microtask
VerbResumes ==
    /\ Ready
    /\ Scheduled("settled")
    /\ LET s == Head(queue)[2]
           call == inflight[s][2]
           outcome == verb_resume(call.outcome)
       IN  /\ inflight' = [inflight EXCEPT
                               ![s] = Pending("returned", call.caller, call.event, outcome)]
           /\ queue' = Append(Tail(queue), <<active, s>>)
           /\ last' = [request |-> NoRequest, outcome |-> outcome, caller |-> call.caller,
                       args |-> <<call.event>>, op |-> "verb", after |-> <<call.event>>,
                       kind |-> KindOf(outcome)]
    /\ UNCHANGED <<config, token, tokenHistory, others>>

\* the resource method that awaited the verb resumes: login stores the token
\* of the response; its caller resumes in a later microtask
MethodResumes ==
    /\ Ready
    /\ Scheduled("returned")
    /\ LET s == Head(queue)[2]
           call == inflight[s][2]
           done == Resume(call.caller, call.outcome, token)
       IN  /\ call.caller \in {"login", "resource"}
           /\ token' = done.token
           /\ tokenHistory' = IF done.set THEN "login" ELSE tokenHistory
           /\ inflight' = [inflight EXCEPT
                               ![s] = Pending("resumed", call.caller, call.event, done.outcome)]
           /\ queue' = Append(Tail(queue), <<active, s>>)
           /\ last' = [request |-> NoRequest, outcome |-> done.outcome, caller |-> call.caller,
                       args |-> <<call.event>>, op |-> "method", after |-> <<call.event>>,
                       kind |-> KindOf(done.outcome)]
    /\ UNCHANGED <<config, others>>

\* the caller that awaited the call resumes with what the call returned or threw
CallerResumes ==
    /\ Ready
    /\ queue # <<>>
    /\ Head(queue)[1] = active
    /\ LET s == Head(queue)[2]
           call == inflight[s][2]
       IN  /\ \/ inflight[s][1] = "resumed"
              \/ inflight[s][1] = "returned" /\ call.caller = "direct"
           /\ inflight' = [inflight EXCEPT ![s] = Empty]
           /\ last' = [request |-> NoRequest, outcome |-> call.outcome, caller |-> call.caller,
                       args |-> <<call.event>>, op |-> "caller", after |-> <<call.event>>,
                       kind |-> KindOf(call.outcome)]
    /\ queue' = Tail(queue)
    /\ UNCHANGED <<config, token, tokenHistory, others>>

\* the caller takes the result of the operation and goes on
Continue ==
    /\ ~Ready
    /\ last' = Idle
    /\ UNCHANGED <<config, token, inflight, tokenHistory, others, queue>>

(***************************************************************************)
(* The resource methods, called with the inputs below.                     *)
(***************************************************************************)
LongName == "aaaaaaaaaaaaaaaaaaaaaaaaaaaaaaa"

CredentialInputs ==
    { Obj([username |-> Str("testuser"), password |-> Str("testpass")]),
      Obj([password |-> Str("testpass")]),
      Obj([username |-> Str("testuser")]),
      Obj([username |-> Str("ab"), password |-> Str("testpass")]),
      Obj([username |-> Str(LongName), password |-> Str("testpass")]),
      Obj([username |-> Str("testuser"), password |-> Str("")]),
      Obj([username |-> Str("abc"), password |-> Str("x")]),
      Obj([username |-> Str(SubSeq(LongName, 1, 30)), password |-> Str("testpass")]),
      Obj([username |-> Str("ab"), password |-> Str("")]),
      Undefined }

Identifiers == {Undefined, Null, Num(0), Str(""), Num(1), Str("abc")}

Usernames == {Undefined, Null, Str(""), Str("johndoe")}

\* (marketId, username) and (marketId, resolutionResult)
IdentifierPairs ==
    { <<Num(1), Str("johndoe")>>, <<Num(1), Str("yes")>>, <<Num(0), Str("johndoe")>>,
      <<Str(""), Str("")>>, <<Null, Str("johndoe")>>, <<Num(1), Undefined>>,
      <<Num(1), Null>>, <<Undefined, Undefined>> }

SellInputs ==
    { Obj([outcome |-> Str("yes"), marketId |-> Num(1), amount |-> Num(50)]),
      Obj([outcome |-> Str("yes"), marketId |-> Num(1), amount |-> Num(0)]),
      Obj([outcome |-> Str("yes"), marketId |-> Num(1), amount |-> Num(-5)]),
      Obj([outcome |-> Str("no"), marketId |-> Num(0), amount |-> Num(50)]),
      Obj([outcome |-> Str("yes"), marketId |-> Num(1), amount |-> Str("-5")]),
      Obj([outcome |-> Str("yes"), marketId |-> Num(1), amount |-> Str(" ")]),
      Obj([outcome |-> Str("yes"), marketId |-> Num(1), amount |-> Str("5")]),
      Obj([amount |-> Num(50)]) }

BetInputs ==
    { Obj([outcome |-> Str("yes"), marketId |-> Num(1), amount |-> Num(100)]),
      Obj([marketId |-> Num(1)]),
      Obj([outcome |-> Str("yes"), marketId |-> Num(1), amount |-> Num(0)]),
      Obj([outcome |-> Str("yes"), marketId |-> Num(1), amount |-> Num(-50)]),
      Obj([outcome |-> Str("yes"), marketId |-> Num(1), amount |-> Str("0")]),
      Obj([outcome |-> Str("yes"), marketId |-> Num(1), amount |-> Str("abc")]),
      Obj([outcome |-> Str("yes"), marketId |-> Num(1), amount |-> Date(0, 0)]),
      Obj([outcome |-> Str("yes"), marketId |-> Num(0), amount |-> Num(100)]),
      Obj([outcome |-> Undefined, marketId |-> Null, amount |-> Num(100)]),
      Obj([amount |-> Num(100)]),
      Undefined }

MarketInputs ==
    { Obj([description |-> Str("Test market"), questionTitle |-> Str("New Market"),
           outcomeType |-> Str("binary"), resolutionDateTime |-> Str("2025-10-15T12:00:00Z")]),
      Obj([description |-> Str("Test market"), questionTitle |-> Str("New Market"),
           outcomeType |-> Str("binary"), resolutionDateTime |-> Date(20376, 43200000)]),
      Obj([description |-> Str("Test market"), questionTitle |-> Str("New Market"),
           outcomeType |-> Str("binary"), resolutionDateTime |-> InvalidDate]),
      Obj([description |-> Str("Test market"), questionTitle |-> Str("Old Market"),
           outcomeType |-> Str("binary"), resolutionDateTime |-> Date(-1, 86399999)]),
      Obj([questionTitle |-> Str("Test")]) }

UserInputs ==
    { Obj([username |-> Str("newuser"), password |-> Str("securepassword"),
           displayName |-> Str("New User"), email |-> Str("newuser@example.com"),
           userType |-> Str("standard")]),
      Obj([username |-> Str("newuser"), password |-> Str("securepassword"),
           displayName |-> Str("New User"), email |-> Str("newuser@example"),
           userType |-> Str("standard")]),
      Obj([username |-> Str("newuser"), password |-> Str("securepassword"),
           displayName |-> Str("New User"), email |-> Str("new user@example.com"),
           userType |-> Str("standard")]),
      Obj([username |-> Str("newuser"), email |-> Str("newuser@example.com")]) }

PasswordInputs ==
    { Obj([currentPassword |-> Str("oldpass"), newPassword |-> Str("newpass")]),
      Obj([currentPassword |-> Str("oldpass")]) }

TextInputs == {Undefined, Str(""), Str("John Doe")}

FewTextInputs == {Null, Str(""), Str("John Doe")}

LinkInputs == {Undefined, Null, Str("https://example.com"),
               Obj([personalLink1 |-> Str("https://example.com")])}

Login ==
    \E credentials \in CredentialInputs :
        Perform("auth.login", "login", <<credentials>>, login(credentials))

PlaceBet ==
    \E betData \in BetInputs :
        Perform("betting.placeBet", "resource", <<betData>>, placeBet(betData))

GetUserPosition ==
    \E marketId \in Identifiers :
        Perform("betting.getUserPosition", "resource", <<marketId>>, getUserPosition(marketId))

SellPosition ==
    \E sellData \in SellInputs :
        Perform("betting.sellPosition", "resource", <<sellData>>, sellPosition(sellData))

CreateUser ==
    \E userData \in UserInputs :
        Perform("admin.createUser", "resource", <<userData>>, createUser(userData))

MarketsList == Perform("markets.list", "resource", <<>>, markets_list)

MarketsSearch ==
    \E query \in TextInputs :
        Perform("markets.search", "resource", <<query>>, markets_search(query))

MarketsListActive == Perform("markets.listActive", "resource", <<>>, markets_listActive)

MarketsListClosed == Perform("markets.listClosed", "resource", <<>>, markets_listClosed)

MarketsListResolved == Perform("markets.listResolved", "resource", <<>>, markets_listResolved)

MarketsGet ==
    \E marketId \in Identifiers :
        Perform("markets.get", "resource", <<marketId>>, markets_get(marketId))

MarketsProjectProbability ==
    \E params \in SellInputs \cup {Undefined, Null} :
        Perform("markets.projectProbability", "resource", <<params>>,
                markets_projectProbability(params))

MarketsGetBets ==
    \E marketId \in Identifiers :
        Perform("markets.getBets", "resource", <<marketId>>, markets_getBets(marketId))

MarketsGetPositions ==
    \E marketId \in Identifiers :
        Perform("markets.getPositions", "resource", <<marketId>>,
                markets_getPositions(marketId))

MarketsGetUserPositions ==
    \E pair \in IdentifierPairs :
        Perform("markets.getUserPositions", "resource", pair,
                markets_getUserPositions(pair[1], pair[2]))

MarketsGetLeaderboard ==
    \E marketId \in Identifiers :
        Perform("markets.getLeaderboard", "resource", <<marketId>>,
                markets_getLeaderboard(marketId))

MarketsCreate ==
    \E marketData \in MarketInputs :
        Perform("markets.create", "resource", <<marketData>>, markets_create(marketData))

MarketsResolve ==
    \E pair \in IdentifierPairs :
        Perform("markets.resolve", "resource", pair, markets_resolve(pair[1], pair[2]))

UsersGetPublicInfo ==
    \E username \in Usernames :
        Perform("users.getPublicInfo", "resource", <<username>>, users_getPublicInfo(username))

UsersGetCredit ==
    \E username \in Usernames :
        Perform("users.getCredit", "resource", <<username>>, users_getCredit(username))

UsersGetPortfolio ==
    \E username \in Usernames :
        Perform("users.getPortfolio", "resource", <<username>>, users_getPortfolio(username))

UsersGetFinancial ==
    \E username \in Usernames :
        Perform("users.getFinancial", "resource", <<username>>, users_getFinancial(username))

UsersGetPrivateProfile ==
    Perform("users.getPrivateProfile", "resource", <<>>, users_getPrivateProfile)

UsersChangePassword ==
    \E passwordData \in PasswordInputs :
        Perform("users.changePassword", "resource", <<passwordData>>,
                users_changePassword(passwordData))

UsersChangeDisplayName ==
    \E displayName \in FewTextInputs :
        Perform("users.changeDisplayName", "resource", <<displayName>>,
                users_changeDisplayName(displayName))

UsersChangeEmoji ==
    \E emoji \in FewTextInputs :
        Perform("users.changeEmoji", "resource", <<emoji>>, users_changeEmoji(emoji))

UsersChangeDescription ==
    \E description \in FewTextInputs :
        Perform("users.changeDescription", "resource", <<description>>,
                users_changeDescription(description))

UsersChangePersonalLinks ==
    \E links \in LinkInputs :
        Perform("users.changePersonalLinks", "resource", <<links>>,
                users_changePersonalLinks(links))

ConfigGetHome == Perform("config.getHome", "resource", <<>>, config_getHome)

ConfigGetSetup == Perform("config.getSetup", "resource", <<>>, config_getSetup)

ConfigGetStats == Perform("config.getStats", "resource", <<>>, config_getStats)

ConfigGetSystemMetrics ==
    Perform("config.getSystemMetrics", "resource", <<>>, config_getSystemMetrics)

ConfigGetGlobalLeaderboard ==
    Perform("config.getGlobalLeaderboard", "resource", <<>>, config_getGlobalLeaderboard)

(***************************************************************************)
(* The helpers called directly: BaseResource.validateRequired and          *)
(* formatDate, and the predicates of a SocialPredictError.                 *)
(***************************************************************************)
\* a call that sends nothing and changes nothing: what it returns or throws
Apply(op, args, result) ==
    /\ Ready
    /\ last' = [request |-> NoRequest, outcome |-> result, caller |-> "none", args |-> args,
                op |-> op, after |-> args,
                kind |-> IF result[1] = "throw" THEN "threw" ELSE "returned"]
    /\ UNCHANGED <<config, token, inflight, tokenHistory, others, queue>>

\* objects with any of three properties, present or not, set or not
ParamInputs ==
    { Obj(f) : f \in UNION { [D -> {Undefined, Null, Num(0), Str("yes")}] :
                                D \in SUBSET {"marketId", "amount", "outcome"} } }

RequiredLists ==
    { <<"marketId", "amount", "outcome">>, <<"outcome", "marketId">>, <<"amount">>, <<>> }

ValidateRequired ==
    \E params \in ParamInputs, required \in RequiredLists :
        Apply("validateRequired", <<params, required>>, validateRequired(params, required))

StatusCodes ==
    { Undefined, Null, Num(-1), Num(0), Num(200), Num(399), Num(400), Num(401), Num(402),
      Num(403), Num(404), Num(405), Num(499), Num(500), Num(501), Num(503) }

Codes == { Undefined, Str(""), Str("NETWORK_ERROR"), Str("network_error"), Str("API_ERROR") }

\* new SocialPredictError(message, statusCode, code, data), then its five predicates
Classify ==
    \E message \in {Str("Test error"), Str("NETWORK_ERROR"), Undefined, Null},
       statusCode \in StatusCodes, code \in Codes,
       data \in {Undefined, Obj([statusCode |-> Num(500), error |-> Str("NETWORK_ERROR")])} :
        LET e == NewSocialPredictError(message, statusCode, code, data)
        IN  Apply("SocialPredictError", <<message, statusCode, code, data>>,
                  Return([isNetworkError |-> isNetworkError(e), isAuthError |-> isAuthError(e),
                          isValidationError |-> isValidationError(e),
                          isNotFoundError |-> isNotFoundError(e),
                          isServerError |-> isServerError(e), error |-> e]))

DateInputs ==
    { Date(20376, 43200000), Date(0, 0), Date(-1, 86399999), Date(19782, 3723004),
      Date(11016, 1), InvalidDate,
      Str("2025-10-15T12:00:00Z"), Str("2025-10-15T12:00:00.000Z"), Str("tomorrow"),
      Str(""), Undefined, Null }

FormatDate ==
    \E date \in DateInputs : Apply("formatDate", <<date>>, formatDate(date))

(***************************************************************************)
(* Two clients in one process. The variables config, token, inflight and   *)
(* tokenHistory are those of the client the caller is using, and peer      *)
(* holds those of the other client.                                        *)
(***************************************************************************)
Constructed(args) ==
    [config |-> HttpClientDefaults(Default(args[1], Str("http://localhost:8080")), args[2]),
     token |-> HttpClientToken(args[2]),
     inflight |-> [s \in Slots |-> Empty],
     tokenHistory |-> "none"]

\* new SocialPredictClient(...) twice
PairInit ==
    \E a \in ConstructorArgs, b \in ConstructorArgs :
        /\ config = Constructed(a).config
        /\ token = Constructed(a).token
        /\ inflight = Constructed(a).inflight
        /\ tokenHistory = Constructed(a).tokenHistory
        /\ peer = Constructed(b)
        /\ active = "A"
        /\ queue = <<>>
        /\ last = [request |-> NoRequest, outcome |-> NoOutcome, caller |-> "none", args |-> b,
                   op |-> "constructor", after |-> b, kind |-> "done"]

\* the caller turns to the other client
Switch ==
    /\ Ready
    /\ peer # NoPeer
    /\ config' = peer.config
    /\ token' = peer.token
    /\ inflight' = peer.inflight
    /\ tokenHistory' = peer.tokenHistory
    /\ peer' = [config |-> config, token |-> token, inflight |-> inflight,
                tokenHistory |-> tokenHistory]
    /\ active' = IF active = "A" THEN "B" ELSE "A"
    /\ UNCHANGED <<last, queue>>

\* the client in use has no call under way
Quiet == \A s \in Slots : inflight[s] = Empty

\* no result is on its way to its caller: what the queue holds, if anything, are
\* request interceptors. A caller that does nothing while a result is on its
\* way, and a server whose answers arrive one in a turn of the event loop, keep
\* to the steps guarded by this.
Delivered ==
    LET SlotOf(entry) ==
            IF entry[1] = active THEN inflight[entry[2]] ELSE peer.inflight[entry[2]]
    IN  \A i \in DOMAIN queue : SlotOf(queue[i])[1] = "called"

\* the continuations of the library: the microtasks
Microtask ==
    \/ Intercept
    \/ VerbResumes
    \/ MethodResumes
    \/ CallerResumes

\* the operations on either client, each client with one request at a time
PairNext ==
    \/ Switch
    \/ SetToken
    \/ ClearToken
    \/ Logout
    \/ Delivered /\ Quiet /\ Get
    \/ Delivered /\ Quiet /\ Login
    \/ Delivered /\ Respond
    \/ Microtask
    \/ Continue

\* the helpers, and markets.create, which formats the date it sends
HelperNext ==
    \/ Delivered /\ ValidateRequired
    \/ Delivered /\ Classify
    \/ Delivered /\ FormatDate
    \/ Delivered /\ MarketsCreate
    \/ Delivered /\ Respond
    \/ Microtask
    \/ Continue

TransportNext ==
    \/ SetToken
    \/ ClearToken
    \/ Logout
    \/ Delivered /\ Get
    \/ Delivered /\ Post
    \/ Delivered /\ Put
    \/ Delivered /\ Patch
    \/ Delivered /\ Delete
    \/ Delivered /\ Respond
    \/ Delivered /\ TransportFailure
    \/ Delivered /\ OtherFailure
    \/ Delivered /\ TimeoutElapses
    \/ Intercept
    \/ VerbResumes
    \/ CallerResumes
    \/ Continue

ResourceNext ==
    \/ MethodResumes
    \/ Delivered /\ Login
    \/ Delivered /\ PlaceBet
    \/ Delivered /\ GetUserPosition
    \/ Delivered /\ SellPosition
    \/ Delivered /\ CreateUser
    \/ Delivered /\ MarketsList
    \/ Delivered /\ MarketsSearch
    \/ Delivered /\ MarketsListActive
    \/ Delivered /\ MarketsListClosed
    \/ Delivered /\ MarketsListResolved
    \/ Delivered /\ MarketsGet
    \/ Delivered /\ MarketsProjectProbability
    \/ Delivered /\ MarketsGetBets
    \/ Delivered /\ MarketsGetPositions
    \/ Delivered /\ MarketsGetUserPositions
    \/ Delivered /\ MarketsGetLeaderboard
    \/ Delivered /\ MarketsCreate
    \/ Delivered /\ MarketsResolve
    \/ Delivered /\ UsersGetPublicInfo
    \/ Delivered /\ UsersGetCredit
    \/ Delivered /\ UsersGetPortfolio
    \/ Delivered /\ UsersGetFinancial
    \/ Delivered /\ UsersGetPrivateProfile
    \/ Delivered /\ UsersChangePassword
    \/ Delivered /\ UsersChangeDisplayName
    \/ Delivered /\ UsersChangeEmoji
    \/ Delivered /\ UsersChangeDescription
    \/ Delivered /\ UsersChangePersonalLinks
    \/ Delivered /\ ConfigGetHome
    \/ Delivered /\ ConfigGetSetup
    \/ Delivered /\ ConfigGetStats
    \/ Delivered /\ ConfigGetSystemMetrics
    \/ Delivered /\ ConfigGetGlobalLeaderboard

Next == TransportNext \/ ResourceNext

Spec == Init /\ [][Next]_vars

HelperSpec == Init /\ [][HelperNext]_vars

PairSpec == PairInit /\ [][PairNext]_vars

\* the options of the constructor that bear on the Authorization header: the
\* token absent, null, empty or set, and the header not declared, declared,
\* or declared with an empty value
OptionArgs ==
    { <<Undefined, [token |-> t, timeout |-> Undefined, headers |-> h]>> :
          t \in {Undefined, Null, Str(""), Str("test-token")},
          h \in {NoHeaders,
                 [n \in {"Authorization"} |-> Str("Basic dXNlcjpwYXNz")],
                 [n \in {"Authorization"} |-> Str("")]} }

\* new SocialPredictClient(undefined, options)
OptionInit ==
    \E args \in OptionArgs :
        /\ config = Constructed(args).config
        /\ token = Constructed(args).token
        /\ inflight = Constructed(args).inflight
        /\ tokenHistory = Constructed(args).tokenHistory
        /\ last = [request |-> NoRequest, outcome |-> NoOutcome, caller |-> "none",
                   args |-> args, op |-> "constructor", after |-> args, kind |-> "done"]
        /\ peer = NoPeer
        /\ active = "A"
        /\ queue = <<>>

\* the operations that write or read the token
OptionNext ==
    \/ SetToken
    \/ ClearToken
    \/ Logout
    \/ Delivered /\ Get
    \/ Delivered /\ Login
    \/ Delivered /\ Respond
    \/ Microtask
    \/ Continue

OptionSpec == OptionInit /\ [][OptionNext]_vars

\* a caller that, once it has cleared the token, neither sets a token nor starts
\* a login: what was in flight before may still settle
LoggedOutNext ==
    \/ tokenHistory # "cleared" /\ SetToken
    \/ Delivered /\ tokenHistory # "cleared" /\ Login
    \/ ClearToken
    \/ Logout
    \/ Delivered /\ Get
    \/ Delivered /\ Respond
    \/ Microtask
    \/ Continue

LoggedOutSpec == Init /\ [][LoggedOutNext]_vars

\* the transport alone, with the scheduling of the JavaScript runtime: the
\* caller's code runs to its end, the microtasks queued are run, and a timer
\* that is armed fires unless the request settles before. The timer of a
\* request is armed only by a positive config.timeout (Timeout); nothing is
\* assumed of the server or of the network, which may never answer
LiveSpec ==
    /\ Init
    /\ [][TransportNext]_vars
    /\ WF_vars(Continue)
    /\ SF_vars(Microtask)
    /\ \A s \in Slots : SF_vars(Delivered /\ Timeout(s))

\* the answers to two logins under way at once
Answers ==
    { <<Num(200), Obj([token |-> Str("jwt-token-123"), username |-> Str("testuser")])>>,
      <<Num(200), Obj([token |-> Str("jwt-token-456"), username |-> Str("testuser")])>>,
      <<Num(200), Obj([token |-> Str(""), username |-> Str("testuser")])>>,
      <<Num(200), Obj([success |-> Str("true")])>>,
      <<Num(401), Obj([message |-> Str("Invalid username or password"),
                       error |-> Str("INVALID_CREDENTIALS")])>> }

Answer == \E s \in Slots, r \in Answers : Settle(s, Response(r[1], r[2]))

\* a caller that goes on while results are on their way, and a server whose
\* answers arrive in one turn of the event loop: the operations on the token, a
\* request and a login, in any order with the microtasks
TurnNext ==
    \/ SetToken
    \/ ClearToken
    \/ Logout
    \/ Get
    \/ Login
    \/ Answer
    \/ Microtask
    \/ Continue

TurnSpec == Init /\ [][TurnNext]_vars

(***************************************************************************)
(* Properties. The state after a step is read from `last`. A call of the   *)
(* caller has the name of the method as its op, and the kind "called" with *)
(* the request handed to axios, "threw", "returned" or "done". The steps   *)
(* of the library that follow a call have the op "interceptor" (kind       *)
(* "sent", with the request as sent), "settle", "verb", "method" and       *)
(* "caller", the last four with the event that settled the request as      *)
(* their argument and with what the step returned or threw.                *)
(***************************************************************************)
\* the ops of the steps that follow a call
Steps == {"interceptor", "settle", "verb", "method", "caller"}

\* the headers of the request the interceptor has just sent
SentHeaders == last.request[2].headers

Bearer(t) == Str("Bearer " \o Text(t))

\* the Authorization header declared at construction, if one was
Declared == Header(config.headers, "Authorization")

\* an Authorization header was declared with a value that is not empty
IsDeclared == Declared \notin {Undefined, Str("")}

\* a token that is sent: any value but null, undefined, "", 0 and NaN
Sendable(t) == t \notin {Null, Undefined, Str(""), Num(0), NaN}

(***************************************************************************)
(* C1, as stated: on every verb call, a request sent while a token is set  *)
(* carries "Authorization: Bearer <token>", and a request sent while no    *)
(* token is set gets no Authorization header from the HttpClient.          *)
(***************************************************************************)
C1_AsStated ==
    last.kind = "sent" =>
        IF token # Null
        THEN Header(SentHeaders, "Authorization") = Bearer(token)
        ELSE SentHeaders = config.headers

(***************************************************************************)
(* C1, amended: on every verb call, a request sent while the token is a    *)
(* value other than null, undefined, "", 0 and NaN, and no Authorization   *)
(* header with a non-empty value was declared at construction, carries     *)
(* "Authorization: Bearer <token>" next to the other declared headers, in  *)
(* the place of an Authorization header declared empty; in every other     *)
(* case (no token, a token that is "" or 0, a non-empty Authorization      *)
(* header declared) the request carries the declared headers unchanged.    *)
(* The token is the one held when the request interceptor runs, which is   *)
(* after the call.                                                         *)
(***************************************************************************)
C1_Injection ==
    last.kind = "sent" =>
        IF Sendable(token) /\ ~IsDeclared
        THEN SentHeaders = ("Authorization" :> Bearer(token)) @@ config.headers
        ELSE SentHeaders = config.headers

\* a verb was called with a token set, on the client that declared an empty
\* Authorization header, and sent the token next to the other headers
C1_Witness ==
    /\ last.kind = "sent"
    /\ last.caller = "direct"
    /\ token = Str("test-token")
    /\ Declared = Str("")
    /\ Header(SentHeaders, "Authorization") = Str("Bearer test-token")
    /\ Header(SentHeaders, "Content-Type") = Str("application/json")

(***************************************************************************)
(* C2, as stated: once setToken(T) was followed by clearToken(), with no   *)
(* setToken or login since, isAuthenticated() is false and every request   *)
(* sent carries no Authorization header.                                   *)
(***************************************************************************)
C2_AsStated ==
    tokenHistory = "cleared" =>
        /\ ~isAuthenticated
        /\ last.kind = "sent" => "Authorization" \notin DOMAIN SentHeaders

(***************************************************************************)
(* C2, amended: once setToken(T) was followed by clearToken(), with no     *)
(* setToken or login since, isAuthenticated() is false, getToken() is null *)
(* and every request sent carries the headers declared at construction and *)
(* no other: an Authorization header only if one was declared.             *)
(***************************************************************************)
C2_Cleared ==
    tokenHistory = "cleared" =>
        /\ ~isAuthenticated
        /\ getToken = Null
        /\ last.kind = "sent" => SentHeaders = config.headers

\* a request sent after setToken and clearToken, without an Authorization header
C2_Witness ==
    /\ tokenHistory = "cleared"
    /\ last.kind = "sent"
    /\ "Authorization" \notin DOMAIN SentHeaders

\* login has resumed after its await and returned the body of a response
LoginReturned == last.op = "method" /\ last.caller = "login" /\ last.kind = "returned"

(***************************************************************************)
(* C3, as stated: when login returns a response that contains a token t,   *)
(* the token of the HttpClient is t, whatever it was before, and every     *)
(* request sent from then on (until the token is set or cleared again)     *)
(* carries "Authorization: Bearer t".                                      *)
(***************************************************************************)
C3_AsStated ==
    /\ LoginReturned /\ Prop(last.outcome[2], "token") # Undefined
            => token = Prop(last.outcome[2], "token")
    /\ tokenHistory = "login" /\ last.kind = "sent"
            => Header(SentHeaders, "Authorization") = Bearer(token)

(***************************************************************************)
(* C3, amended: when login returns a response that contains a non-empty    *)
(* token t, the token of the HttpClient is t, whatever it was before, and  *)
(* every request sent from then on (until the next change of the token)    *)
(* carries "Authorization: Bearer t", in the place of an Authorization     *)
(* header declared empty at construction, unless an Authorization header   *)
(* with a non-empty value was declared, which such a request keeps.        *)
(***************************************************************************)
C3_LoginStores ==
    /\ LoginReturned /\ Prop(last.outcome[2], "token") \notin {Undefined, Str("")}
            => token = Prop(last.outcome[2], "token") /\ tokenHistory = "login"
    /\ tokenHistory = "login" /\ last.kind = "sent"
            => SentHeaders = IF IsDeclared THEN config.headers
                             ELSE ("Authorization" :> Bearer(token)) @@ config.headers

\* of two logins that were answered together the second has returned and stored
\* its token, the first, which stored another, being still on its way to its caller
C3_Witness ==
    /\ LoginReturned
    /\ Prop(last.outcome[2], "token") = Str("jwt-token-456")
    /\ token = Str("jwt-token-456")
    /\ tokenHistory = "login"
    /\ \E s \in Slots :
           /\ inflight[s][1] = "resumed"
           /\ inflight[s][2].caller = "login"
           /\ Prop(inflight[s][2].outcome[2], "token") = Str("jwt-token-123")

(***************************************************************************)
(* The local validations, as the specification lists them per method.      *)
(***************************************************************************)
RequiredFields(op) ==
    CASE op = "auth.login" -> <<"username", "password">>
      [] op \in {"betting.placeBet", "betting.sellPosition", "markets.projectProbability"}
            -> <<"marketId", "amount", "outcome">>
      [] op = "markets.create"
            -> <<"questionTitle", "description", "outcomeType", "resolutionDateTime">>
      [] op = "admin.createUser"
            -> <<"username", "displayName", "email", "password", "userType">>
      [] op = "users.changePassword" -> <<"newPassword">>
      [] OTHER -> <<>>

\* the methods of one argument that is required
IdentifierMethods ==
    {"betting.getUserPosition", "markets.search", "markets.get", "markets.getBets",
     "markets.getPositions", "markets.getLeaderboard", "users.getPublicInfo",
     "users.getCredit", "users.getPortfolio", "users.getFinancial",
     "users.changeDisplayName", "users.changeEmoji", "users.changeDescription"}

\* the methods of two arguments that are both required
PairMethods == {"markets.getUserPositions", "markets.resolve"}

MalformedEmails == {Str("newuser@example"), Str("new user@example.com")}

LacksField(params, names) ==
    \E i \in DOMAIN names : Prop(params, names[i]) \in {Undefined, Null}

\* the amounts that `<=` finds at or below 0: a number that is, a string that
\* reads as one (the blank string reads as 0), the Date of the epoch
AtMostZero(amount) ==
    \/ amount[1] = "number" /\ amount[2] <= 0
    \/ amount \in {Str("0"), Str("-5"), Str(" "), Date(0, 0)}

FailsValidation(op, args) ==
    \/ /\ RequiredFields(op) # <<>>
       /\ args[1][1] = "object"
       /\ \/ LacksField(args[1], RequiredFields(op))
          \/ /\ op = "auth.login"
             /\ \/ Len(args[1][2].username[2]) < 3
                \/ Len(args[1][2].username[2]) > 30
                \/ Len(args[1][2].password[2]) < 1
          \/ /\ op \in {"betting.placeBet", "betting.sellPosition"}
             /\ AtMostZero(args[1][2].amount)
          \/ /\ op = "admin.createUser"
             /\ args[1][2].email \in MalformedEmails
    \/ /\ op \in IdentifierMethods
       /\ args[1] \in {Undefined, Null, Num(0), Str("")}
    \/ /\ op \in PairMethods
       /\ \/ args[1] \in {Undefined, Null}
          \/ args[2] \in {Undefined, Null}
    \/ /\ op = "users.changePersonalLinks"
       /\ args[1][1] # "object"

\* the last operation is a resource method called with input that fails validation
Invalidated(l) == l.caller \in {"resource", "login"} /\ l.op \notin Steps
                      /\ FailsValidation(l.op, l.args)

(***************************************************************************)
(* C4: when a resource method is called with input that fails a local      *)
(* validation (a missing required field, a falsy identifier, a username or *)
(* password length out of range, a non-positive amount, a malformed        *)
(* email), the call throws without calling a verb of the HttpClient: no    *)
(* request is handed to axios and none is scheduled, the calls under way   *)
(* are as before, and the token is unchanged.                              *)
(***************************************************************************)
C4_NoRequest ==
    [][Invalidated(last') =>
           /\ last'.kind = "threw"
           /\ last'.request = NoRequest
           /\ inflight' = inflight
           /\ queue' = queue
           /\ token' = token /\ tokenHistory' = tokenHistory]_vars

\* placeBet has thrown for a non-positive amount, a token being set
C4_Witness ==
    /\ last.op = "betting.placeBet"
    /\ last.kind = "threw"
    /\ last.outcome = Throw(Error(Str("Bet amount must be greater than 0")))
    /\ last.request = NoRequest
    /\ token = Str("test-token")

\* a verb method has resumed after its request settled, and has returned or thrown
VerbSettled == last.op = "verb"

\* the response or the failure the settled request met
Event == last.args[1]

(***************************************************************************)
(* C5: every call of a verb (get, post, put, patch, delete) either returns *)
(* the body of a response or throws one SocialPredictError, whatever came  *)
(* back: also a response outside 2xx with no body or an empty one.         *)
(***************************************************************************)
C5_ReturnsOrErrorType ==
    VerbSettled =>
        \/ last.kind = "returned"
        \/ last.kind = "threw" /\ IsErrorType(last.outcome[2])

(***************************************************************************)
(* C6: a local validation failure raised by a resource method (a required  *)
(* field missing, a length or an amount out of range, a malformed email)   *)
(* reaches the caller as a SocialPredictError, as every other failure of   *)
(* the library does.                                                       *)
(***************************************************************************)
C6_AsStated ==
    Invalidated(last) => last.kind = "threw" /\ IsErrorType(last.outcome[2])

\* a request has settled with a response, and the verb, the resource method or
\* their caller has resumed: the status and the body of the response
Responded == last.op \in {"verb", "method", "caller"} /\ Event[1] = "response"

Status == Event[2][2].status

Body == Event[2][2].data

IsSuccess == 200 <= Status[2] /\ Status[2] < 300

\* the body has a non-empty property of this name
Has(b, name) == Prop(b, name) \notin {Undefined, Null, Str("")}

(***************************************************************************)
(* C7: a response with a status s outside 2xx and a body b makes the call  *)
(* throw a SocialPredictError with statusCode s and data b, whose message  *)
(* is b.message if b has one and "HTTP <s> Error" if not, and whose code   *)
(* is b.error if b has one and "API_ERROR" if not; for s = 400 its         *)
(* isValidationError() is true. An empty message or error is read as none. *)
(***************************************************************************)
C7_ErrorOfResponse ==
    Responded /\ ~IsSuccess =>
        /\ last.outcome =
               Throw(SocialPredictError(
                   IF Has(Body, "message") THEN Prop(Body, "message")
                   ELSE Str("HTTP " \o ToString(Status[2]) \o " Error"),
                   Status,
                   IF Has(Body, "error") THEN Prop(Body, "error") ELSE Str("API_ERROR"),
                   Body))
        /\ Status = Num(400) => isValidationError(last.outcome[2])

\* the error axios raises when the timeout of a request elapses
TimedOut ==
    /\ last.op = "verb"
    /\ \E request \in {Obj(NoProps), Undefined} : Event = Failure(AxiosTimeoutError(request))

\* a request has failed in the transport, without a response
TransportFailed ==
    /\ last.op = "verb"
    /\ Event[1] = "failure"
    /\ Event[2] \in TransportFailures \/ TimedOut

NetworkError ==
    SocialPredictError(Str("Network error - unable to reach server"),
                       Num(0), Str("NETWORK_ERROR"), Null)

(***************************************************************************)
(* C8: a failure of the transport that brings no response (connection      *)
(* refused, name not resolved, timeout, aborted request) makes the call    *)
(* throw SocialPredictError("Network error - unable to reach server", 0,   *)
(* "NETWORK_ERROR"), whose isNetworkError() is true.                       *)
(***************************************************************************)
C8_NetworkError ==
    TransportFailed =>
        /\ last.outcome = Throw(NetworkError)
        /\ isNetworkError(last.outcome[2])

\* a request failed with the error that carries neither request nor code, and
\* threw the network error
C8_Witness ==
    /\ last.op = "verb"
    /\ Event[1] = "failure"
    /\ Event[2].request = Undefined
    /\ Event[2].message = Str("Network Error")
    /\ last.kind = "threw"
    /\ isNetworkError(last.outcome[2])

(***************************************************************************)
C10_ReturnsBody ==
    Responded /\ IsSuccess => last.outcome = Return(Body)

(***************************************************************************)
(* C11: for a list R of required names and an object in which the names of *)
(* R whose value is undefined or null (or which are absent) form the       *)
(* sequence S, in the order of R: if S is not empty validateRequired       *)
(* throws once, with the message "Missing required parameters: " followed  *)
(* by all the names of S joined by ", "; if S is empty it does not throw.  *)
(***************************************************************************)
C11_MissingInOrder ==
    last.op = "validateRequired" =>
        LET params == last.args[1]
            R == last.args[2]
            S == SelectSeq(R, LAMBDA n : Prop(params, n) \in {Undefined, Null})
        IN  IF S # <<>>
            THEN last.outcome =
                     Throw(Error(Str("Missing required parameters: " \o Join(S, ", "))))
            ELSE last.kind = "returned"

\* two names are missing and are reported in the order of the list, which is not
\* the order of the alphabet nor that of the object
C11_Witness ==
    /\ last.op = "validateRequired"
    /\ last.args[2] = <<"outcome", "marketId">>
    /\ Prop(last.args[1], "amount") = Num(0)
    /\ last.outcome =
           Throw(Error(Str("Missing required parameters: outcome, marketId")))

(***************************************************************************)
(* C12: the five predicates of a SocialPredictError are decided by its     *)
(* statusCode and code alone, whatever its message and data:               *)
(* isNetworkError() iff code = "NETWORK_ERROR", isAuthError() iff          *)
(* statusCode is 401 or 403, isValidationError() iff statusCode = 400,     *)
(* isNotFoundError() iff statusCode = 404, isServerError() iff statusCode  *)
(* >= 500.                                                                 *)
(***************************************************************************)
C12_Predicates ==
    last.op = "SocialPredictError" =>
        LET is == last.outcome[2]
            statusCode == is.error[2].statusCode
            code == is.error[2].code
        IN  /\ is.isNetworkError = (code = Str("NETWORK_ERROR"))
            /\ is.isAuthError = (statusCode \in {Num(401), Num(403)})
            /\ is.isValidationError = (statusCode = Num(400))
            /\ is.isNotFoundError = (statusCode = Num(404))
            /\ is.isServerError = (statusCode[1] = "number" /\ statusCode[2] >= 500)

\* an error of status 500 whose message and data name another class: a server
\* error and nothing else
C12_Witness ==
    /\ last.op = "SocialPredictError"
    /\ last.args = <<Str("NETWORK_ERROR"), Num(500), Undefined,
                     Obj([statusCode |-> Num(500), error |-> Str("NETWORK_ERROR")])>>
    /\ last.outcome[2].error[2].code = Str("UNKNOWN_ERROR")
    /\ last.outcome[2].isServerError
    /\ ~last.outcome[2].isNetworkError
    /\ ~last.outcome[2].isAuthError

\* the argument of placeBet or sellPosition has marketId, amount and outcome, and
\* its amount is zero or negative
NonPositiveAmount(data) ==
    /\ data[1] = "object"
    /\ ~LacksField(data, <<"marketId", "amount", "outcome">>)
    /\ AtMostZero(Prop(data, "amount"))

(***************************************************************************)
(* C13: placeBet called with marketId, amount and outcome present and an   *)
(* amount <= 0 throws "Bet amount must be greater than 0" and sends no     *)
(* request; sellPosition in the same case throws "Sell amount must be      *)
(* greater than 0" and sends no request; so no request to /v0/bet or       *)
(* /v0/sell is handed to axios with an amount <= 0. The amount is compared *)
(* as `<=` compares: a string is read as a number first.                   *)
(***************************************************************************)
C13_PositiveAmount ==
    /\ last.op = "betting.placeBet" /\ NonPositiveAmount(last.args[1])
            => /\ last.outcome = Throw(Error(Str("Bet amount must be greater than 0")))
               /\ last.request = NoRequest
    /\ last.op = "betting.sellPosition" /\ NonPositiveAmount(last.args[1])
            => /\ last.outcome = Throw(Error(Str("Sell amount must be greater than 0")))
               /\ last.request = NoRequest
    /\ last.kind = "called" /\ last.request[2].url \in {Str("/v0/bet"), Str("/v0/sell")}
            => ~NonPositiveAmount(last.request[2].payload)

\* sellPosition has thrown for the amount "-5" while a request was in flight
C13_Witness ==
    /\ last.op = "betting.sellPosition"
    /\ Prop(last.args[1], "amount") = Str("-5")
    /\ last.outcome = Throw(Error(Str("Sell amount must be greater than 0")))
    /\ inflight[1] # Empty

\* login was called with an object that has a username and a password
LoginCalled(l) ==
    /\ l.op = "auth.login"
    /\ l.args[1][1] = "object"
    /\ ~LacksField(l.args[1], <<"username", "password">>)

(***************************************************************************)
(* C14: login called with a username and a password sends POST /v0/login   *)
(* with the credentials exactly when the username has 3 to 30 characters   *)
(* and the password at least 1. With a username of fewer than 3 or more    *)
(* than 30 characters it throws "Username must be between 3 and 30         *)
(* characters"; with a username in range and an empty password it throws   *)
(* "Password must be at least 1 character"; in both cases no request is    *)
(* sent and the token is unchanged.                                        *)
(***************************************************************************)
C14_LoginValidation ==
    [][LoginCalled(last') =>
          LET u == Len(Prop(last'.args[1], "username")[2])
              p == Len(Prop(last'.args[1], "password")[2])
              Fails(message) ==
                  /\ last'.outcome = Throw(Error(Str(message)))
                  /\ last'.request = NoRequest
                  /\ inflight' = inflight
                  /\ queue' = queue
                  /\ token' = token
          IN  IF u < 3 \/ u > 30
              THEN Fails("Username must be between 3 and 30 characters")
              ELSE IF p < 1
              THEN Fails("Password must be at least 1 character")
              ELSE /\ last'.kind = "called"
                   /\ last'.request[2].method = "post"
                   /\ last'.request[2].url = Str("/v0/login")
                   /\ last'.request[2].payload = last'.args[1]]_vars

\* login has thrown for an empty password, the token being set
C14_Witness ==
    /\ last.op = "auth.login"
    /\ Prop(last.args[1], "username") = Str("testuser")
    /\ last.outcome = Throw(Error(Str("Password must be at least 1 character")))
    /\ token = Str("test-token")

(***************************************************************************)
(* Reading an ISO-8601 UTC timestamp "YYYY-MM-DDTHH:MM:SS.mmmZ" back: the  *)
(* instant it names, as days and milliseconds after the epoch.             *)
(***************************************************************************)
Digit(c) ==
    CASE c = "0" -> 0 [] c = "1" -> 1 [] c = "2" -> 2 [] c = "3" -> 3 [] c = "4" -> 4
      [] c = "5" -> 5 [] c = "6" -> 6 [] c = "7" -> 7 [] c = "8" -> 8 [] c = "9" -> 9

RECURSIVE Numeral(_)
Numeral(text) ==
    IF text = "" THEN 0
    ELSE 10 * Numeral(SubSeq(text, 1, Len(text) - 1))
         + Digit(SubSeq(text, Len(text), Len(text)))

DaysFromCivil(y, m, d) ==
    LET yy == IF m <= 2 THEN y - 1 ELSE y
        era == yy \div 400
        yoe == yy - era * 400
        doy == (153 * (IF m > 2 THEN m - 3 ELSE m + 9) + 2) \div 5 + d - 1
        doe == yoe * 365 + yoe \div 4 - yoe \div 100 + doy
    IN  era * 146097 + doe - 719468

IsTimestamp(text) ==
    /\ Len(text) = 24
    /\ SubSeq(text, 5, 5) = "-" /\ SubSeq(text, 8, 8) = "-" /\ SubSeq(text, 11, 11) = "T"
    /\ SubSeq(text, 14, 14) = ":" /\ SubSeq(text, 17, 17) = ":"
    /\ SubSeq(text, 20, 20) = "." /\ SubSeq(text, 24, 24) = "Z"

InstantOf(text) ==
    Date(DaysFromCivil(Numeral(SubSeq(text, 1, 4)), Numeral(SubSeq(text, 6, 7)),
                       Numeral(SubSeq(text, 9, 10))),
         3600000 * Numeral(SubSeq(text, 12, 13)) + 60000 * Numeral(SubSeq(text, 15, 16))
         + 1000 * Numeral(SubSeq(text, 18, 19)) + Numeral(SubSeq(text, 21, 23)))

\* what the specification says a date or a string is formatted to
Formats(x, y) ==
    IF x[1] = "date"
    THEN y[1] = "string" /\ IsTimestamp(y[2]) /\ InstantOf(y[2]) = x
    ELSE y = x

(***************************************************************************)
(* C15: markets.create given a Date (one that holds an instant) as         *)
(* resolutionDateTime sends a body whose resolutionDateTime is the         *)
(* ISO-8601 UTC timestamp of that instant, and given a string sends the    *)
(* string unchanged, the other properties as given; formatDate does the    *)
(* same, and formatting its result again gives the same result.            *)
(***************************************************************************)
C15_FormatsDate ==
    /\ last.op = "markets.create" /\ last.kind = "called"
            => LET given == last.args[1][2]
                   body == last.request[2].payload[2]
               IN  /\ DOMAIN body = DOMAIN given
                   /\ \A n \in DOMAIN given \ {"resolutionDateTime"} : body[n] = given[n]
                   /\ Formats(given.resolutionDateTime, body.resolutionDateTime)
    /\ last.op = "formatDate" /\ last.args[1] # InvalidDate
            => /\ last.kind = "returned"
               /\ Formats(last.args[1], last.outcome[2])
               /\ formatDate(last.outcome[2]) = last.outcome

\* create was given the Date of 2025-10-15 12:00 UTC and has sent its timestamp
C15_Witness ==
    /\ last.op = "markets.create"
    /\ last.kind = "called"
    /\ Prop(last.args[1], "resolutionDateTime") = Date(20376, 43200000)
    /\ Prop(last.request[2].payload, "resolutionDateTime")
           = Str("2025-10-15T12:00:00.000Z")

\* the operation was setToken, through the HttpClient, the client or auth
IsSetToken(op) == op \in {via \o ".setToken" : via \in Entries}

(***************************************************************************)
(* C16: the client and its resource groups share one HttpClient that holds *)
(* the only token: client.getToken(), auth.getToken() and the token of the *)
(* HttpClient are always equal, client.isAuthenticated() always equals     *)
(* auth.isAuthenticated(), a token set through any setToken is that token, *)
(* and the request of any resource group that gets a bearer credential     *)
(* gets the current token, however it was set.                             *)
(***************************************************************************)
C16_OneToken ==
    /\ getToken = token
    /\ AuthResource_getToken = getToken
    /\ AuthResource_isAuthenticated = isAuthenticated
    /\ IsSetToken(last.op) => token = last.args[1] /\ AuthResource_getToken = last.args[1]
    /\ last.kind = "sent" /\ AuthResource_isAuthenticated /\ ~IsDeclared
            => Header(SentHeaders, "Authorization") = Bearer(AuthResource_getToken)

\* the token stored by login (of the auth group) is sent by another group
C16_Witness ==
    /\ tokenHistory = "login"
    /\ last.caller = "resource"
    /\ last.kind = "sent"
    /\ AuthResource_getToken = Str("jwt-token-123")
    /\ Header(SentHeaders, "Authorization") = Str("Bearer jwt-token-123")

IsClearToken(op) ==
    op \in {"HttpClient.clearToken", "SocialPredictClient.clearToken", "AuthResource.logout"}

(***************************************************************************)
(* C17: setToken(t) makes t the token, and clearToken() and auth.logout()  *)
(* make it null; none of the three sends a request, touches a request in   *)
(* flight, or changes the base address, the timeout or the default         *)
(* headers; and constructing a client sends no request.                    *)
(***************************************************************************)
C17_TokenOnly ==
    /\ [](last.op = "constructor"
              => last.request = NoRequest /\ \A s \in Slots : inflight[s] = Empty)
    /\ [][last' # last /\ (IsSetToken(last'.op) \/ IsClearToken(last'.op))
              => /\ token' = IF IsSetToken(last'.op) THEN last'.args[1] ELSE Null
                 /\ last'.request = NoRequest
                 /\ inflight' = inflight
                 /\ queue' = queue
                 /\ config' = config]_vars

\* logout has cleared a token that was set, a request being in flight
C17_Witness ==
    /\ last.op = "AuthResource.logout"
    /\ tokenHistory = "cleared"
    /\ token = Null
    /\ inflight[1] # Empty
    /\ config.timeout = Num(15000)

\* login has returned the body of a 2xx response that holds a token
LoginStored(l) ==
    /\ l.op = "method" /\ l.caller = "login" /\ l.kind = "returned"
    /\ l.args[1][1] = "response"
    /\ 200 <= l.args[1][2][2].status[2] /\ l.args[1][2][2].status[2] < 300
    /\ Prop(l.outcome[2], "token") # Undefined

(***************************************************************************)
(* C18: the token changes only in setToken, in clearToken or logout, and   *)
(* when login returns a 2xx response that holds a token. A call that       *)
(* throws, be it for a failed validation, for a response outside 2xx (401  *)
(* and 403 included), for a failure of the transport or for a timeout,     *)
(* leaves the token as it was, and so does a call of any method other than *)
(* login that returns.                                                     *)
(***************************************************************************)
C18_TokenChanges ==
    [][/\ token' # token
              => IsSetToken(last'.op) \/ IsClearToken(last'.op) \/ LoginStored(last')
       /\ last' # last /\ last'.kind = "threw" => token' = token
       /\ last' # last /\ last'.op \in Steps /\ ~(last'.op = "method" /\ last'.caller = "login")
              => token' = token
      ]_vars

\* login was answered 401 and has thrown, and the token set before is still there
C18_Witness ==
    /\ last.op = "method"
    /\ last.caller = "login"
    /\ last.kind = "threw"
    /\ Event[1] = "response"
    /\ Status = Num(401)
    /\ token = Str("test-token")

\* the tokens of the two clients
TokenA == IF active = "A" THEN token ELSE peer.token

TokenB == IF active = "B" THEN token ELSE peer.token

(***************************************************************************)
(* C19: two clients share no state. An operation on one client (setToken,  *)
(* clearToken, logout, login, a request, a response) changes nothing of    *)
(* the other client, its token in particular; turning from one client to   *)
(* the other changes no token; and a request a client sends gets its       *)
(* bearer credential from that client's own token, never from the other's. *)
(***************************************************************************)
C19_Independent ==
    /\ [][/\ active' = active => peer' = peer
          /\ active' = active /\ active = "A" => TokenB' = TokenB
          /\ active' = active /\ active = "B" => TokenA' = TokenA
          /\ active' # active => TokenA' = TokenA /\ TokenB' = TokenB]_vars
    /\ [](last.kind = "sent"
              => /\ SentHeaders \in
                        {config.headers, ("Authorization" :> Bearer(token)) @@ config.headers}
                 /\ Sendable(token) /\ ~IsDeclared
                        => Header(SentHeaders, "Authorization") = Bearer(token)
                 /\ peer.token # token /\ ~IsDeclared
                        => Header(SentHeaders, "Authorization") # Bearer(peer.token))

\* client B sends its own token while client A holds the token of its login
C19_Witness ==
    /\ active = "B"
    /\ last.kind = "sent"
    /\ last.caller = "direct"
    /\ peer.token = Str("jwt-token-123")
    /\ token = Str("test-token")
    /\ Header(SentHeaders, "Authorization") = Str("Bearer test-token")

\* a request is in flight in the slot: sent, and not settled
Flying(f, s) == f[s][1] = "request"

\* the Authorization header of the request in flight in a slot
Carried(s) == inflight[s][2].Authorization

(***************************************************************************)
(* C20, as stated: whatever changes the token while requests are in        *)
(* flight, a request just sent carries "Bearer <token>" of the token of    *)
(* that moment, or no Authorization header if the token is null, and no    *)
(* request in flight carries anything but the bearer form of a value that  *)
(* was the token.                                                          *)
(***************************************************************************)
C20_AsStated ==
    /\ last.kind = "sent"
            => Header(SentHeaders, "Authorization")
                   = IF token = Null THEN Undefined ELSE Bearer(token)
    /\ \A s \in Slots :
           Flying(inflight, s)
               => Carried(s) \in {Undefined}
                      \cup {Bearer(t) : t \in Tokens \cup {Str("jwt-token-123")}}

\* what the interceptor gives a request sent while the token is tok
SendTimeHeader(tok) ==
    IF Sendable(tok) /\ ~IsDeclared THEN Bearer(tok) ELSE Declared

(***************************************************************************)
(* C20, amended: whatever changes the token while requests are in flight   *)
(* (setToken, clearToken, logout, a login that returns), a request already *)
(* sent keeps the Authorization header it was sent with, and a request     *)
(* sent after the change, be it called before or after, is built from the  *)
(* new token: it carries "Bearer <token>" if the token is a value other    *)
(* than null, undefined, "", 0 and NaN and no Authorization header with a  *)
(* non-empty value was declared at construction, and else the declared     *)
(* Authorization header as it was declared, or none if none was. So a      *)
(* request never carries a bearer value that was not the token when it was *)
(* sent.                                                                   *)
(***************************************************************************)
C20_SendTime ==
    [][\A s \in Slots :
           /\ Flying(inflight, s) /\ Flying(inflight', s) => inflight'[s] = inflight[s]
           /\ ~Flying(inflight, s) /\ Flying(inflight', s)
                  => /\ inflight[s][1] = "called"
                     /\ last'.kind = "sent"
                     /\ Carried(s)' = SendTimeHeader(token)
                     /\ Carried(s)' = Header(last'.request[2].headers, "Authorization")
                     /\ token' = token]_vars

\* a request sent with the token is still in flight when, the token cleared, a
\* second request is sent without it
C20_Witness ==
    /\ last.kind = "sent"
    /\ token = Null
    /\ Flying(inflight, 1) /\ Carried(1) = Str("Bearer test-token")
    /\ Flying(inflight, 2) /\ Carried(2) = Undefined

\* the slots of the calls under way
Occupied(f) == {s \in Slots : f[s] # Empty}

\* the slots a step has changed
Changed == {s \in Slots : inflight'[s] # inflight[s]}

\* the slots of the client in use whose continuation is scheduled
Queued(q) == {q[i][2] : i \in {k \in DOMAIN q : q[k][1] = active}}

\* the event is a response in 2xx
Succeeds(event) == event[1] = "response" /\ ValidateStatus(Prop(event[2], "status"))

(***************************************************************************)
(* C21: each call of a verb makes exactly one request. The call takes a    *)
(* slot and schedules its request, whatever else is under way; the request *)
(* is sent once, when the interceptor has run, and settles once; what the  *)
(* verb, the resource method and the caller get is decided by the event    *)
(* that settled this request and by no other call; every step leaves the   *)
(* other calls as they are, and nothing is sent again after a failure:     *)
(* only a call adds a call, and only the interceptor puts a request in     *)
(* flight.                                                                 *)
(***************************************************************************)
C21_OneRequestPerCall ==
    [][/\ Cardinality(Changed) <= 1
       /\ last'.kind = "called"
              => /\ Cardinality(Occupied(inflight')) = Cardinality(Occupied(inflight)) + 1
                 /\ Occupied(inflight) \subseteq Occupied(inflight')
                 /\ \A s \in Changed : inflight'[s][1] = "called" /\ s \in Queued(queue')
                 /\ Len(queue') = Len(queue) + 1
       /\ last'.kind # "called" /\ last' # last
              => Occupied(inflight') \subseteq Occupied(inflight)
       /\ \A s \in Slots :
              Flying(inflight', s) /\ ~Flying(inflight, s)
                  => inflight[s][1] = "called" /\ last'.op = "interceptor"
       /\ last'.op = "settle"
              => /\ Cardinality(Changed) = 1
                 /\ \A s \in Changed :
                        /\ Flying(inflight, s)
                        /\ inflight'[s][1] = "settled"
                        /\ inflight'[s][2].event = last'.args[1]
                 /\ last'.kind = IF Succeeds(last'.args[1]) THEN "fulfilled" ELSE "rejected"
       /\ last'.op \in {"verb", "method", "caller"}
              => /\ Cardinality(Changed) = 1
                 /\ \A s \in Changed : inflight[s][2].event = last'.args[1]
                 /\ LET event == last'.args[1]
                        success == /\ Succeeds(event)
                                   /\ last'.caller = "login" /\ last'.op # "verb"
                                          => ~IsNullish(Prop(event[2], "data"))
                    IN  /\ last'.kind = IF success THEN "returned" ELSE "threw"
                        /\ success => last'.outcome = Return(Prop(event[2], "data"))
       /\ last'.op = "caller"
              => Cardinality(Occupied(inflight')) = Cardinality(Occupied(inflight)) - 1
      ]_vars

\* two requests were answered together, one with 401 and one with 200: the
\* caller of the first has resumed with the error while the login that made
\* the second is on its way to return the body
C21_Witness ==
    /\ last.op = "caller"
    /\ last.kind = "threw"
    /\ last.caller = "direct"
    /\ Cardinality(Occupied(inflight)) = 1
    /\ inflight[2][1] = "returned"
    /\ inflight[2][2].caller = "login"
    /\ inflight[2][2].outcome[1] = "return"

\* the caller of a resource method, login included, has resumed
ResourceSettled == last.op = "caller" /\ last.caller \in {"resource", "login"}

\* what the verb method of the HttpClient returned or threw for the event that
\* settled the request
Thrown(l) == VerbOutcome(l.args[1])

(***************************************************************************)
(* C22: a SocialPredictError thrown by the HttpClient reaches the caller   *)
(* of the resource method as the same value, with the same message,        *)
(* statusCode, code and data: the resource method throws it on, it neither *)
(* returns nor throws anything else, and neither the method nor the        *)
(* resuming of its caller changes the token.                               *)
(***************************************************************************)
C22_RethrownVerbatim ==
    [][(last' # last /\ last'.op \in {"method", "caller"}
                     /\ last'.caller \in {"resource", "login"})
           => LET thrown == Thrown(last')
              IN  (thrown[1] = "throw" /\ IsErrorType(thrown[2]))
                      => /\ last'.kind = "threw"
                         /\ last'.outcome = thrown
                         /\ \A f \in {"name", "message", "statusCode", "code", "data"} :
                                last'.outcome[2][2][f] = thrown[2][2][f]
                         /\ token' = token]_vars

\* a resource method met a 400 response: its caller got the error of the HttpClient
C22_Witness ==
    /\ ResourceSettled
    /\ last.caller = "resource"
    /\ Responded
    /\ Status = Num(400)
    /\ last.outcome =
           Throw(SocialPredictError(Str("Invalid data"), Num(400),
                                    Str("VALIDATION_ERROR"), Body))

(***************************************************************************)
(* C23, as stated: when a token is set and the request declares an         *)
(* Authorization header, here one given in the headers option of the       *)
(* constructor, the request is sent with the declared value.               *)
(***************************************************************************)
C23_AsStated ==
    (last.kind = "sent" /\ token # Null /\ "Authorization" \in DOMAIN config.headers)
        => Header(SentHeaders, "Authorization") = Declared

(***************************************************************************)
(* C23, amended: a request that declares a non-empty Authorization header  *)
(* is sent with that value whatever the token is; an Authorization header  *)
(* declared with an empty value counts as none: with a non-empty token the *)
(* request is sent with "Bearer <token>" in its place, with the token      *)
(* null, empty or 0 it is sent as declared.                                *)
(***************************************************************************)
C23_DeclaredHeaderKept ==
    last.kind = "sent" /\ "Authorization" \in DOMAIN config.headers
        => Header(SentHeaders, "Authorization")
               = IF Declared = Str("") /\ Sendable(token)
                 THEN Bearer(token)
                 ELSE Declared

\* a request was sent with the declared Basic value while a token was set
C23_Witness ==
    /\ last.kind = "sent"
    /\ token = Str("test-token")
    /\ Declared = Str("Basic dXNlcjpwYXNz")
    /\ Header(SentHeaders, "Authorization") = Str("Basic dXNlcjpwYXNz")

\* a request has failed before anything was sent: no response, and no failure of
\* the transport either
FailedOtherwise ==
    /\ last.op = "verb"
    /\ Event[1] = "failure"
    /\ Event[2] \in OtherFailures

(***************************************************************************)
(* C24: a failure that is neither a response outside 2xx nor a failure of  *)
(* the transport makes the call throw a SocialPredictError with statusCode *)
(* 0, code "UNKNOWN_ERROR" and the message of the failure, or "Unexpected  *)
(* error" when it has none; and a failure that carries a response is       *)
(* always classified by the response: the call throws a SocialPredictError *)
(* whose statusCode is the status of the response.                         *)
(***************************************************************************)
C24_UnknownLast ==
    /\ FailedOtherwise
           => last.outcome =
                  Throw(SocialPredictError(
                      IF Event[2].message \in {Undefined, Null, Str("")}
                      THEN Str("Unexpected error") ELSE Event[2].message,
                      Num(0), Str("UNKNOWN_ERROR"), Null))
    /\ Responded /\ ~IsSuccess
           => /\ last.kind = "threw"
              /\ IsErrorType(last.outcome[2])
              /\ last.outcome[2][2].statusCode = Status

(***************************************************************************)
(* C25: every error a verb throws for a settled request with the code      *)
(* "NETWORK_ERROR" has statusCode 0 and comes from a request that met no   *)
(* response; every error thrown for a response has the status of the       *)
(* response as its statusCode, and its isNetworkError() is false.          *)
(***************************************************************************)
C25_NetworkOrResponse ==
    last.op = "verb" /\ last.kind = "threw" =>
        /\ IsErrorType(last.outcome[2]) /\ last.outcome[2][2].code = Str("NETWORK_ERROR")
               => /\ last.outcome[2][2].statusCode = Num(0)
                  /\ Event[1] = "failure"
                  /\ Event[2].response = Undefined
        /\ Event[1] = "response" /\ ~IsSuccess
               => /\ IsErrorType(last.outcome[2])
                  /\ last.outcome[2][2].statusCode = Status
                  /\ ~isNetworkError(last.outcome[2])

(***************************************************************************)
(* C26: once logout() or clearToken() has cleared a token, and as long as  *)
(* the caller neither calls setToken nor starts a login, the token stays   *)
(* null and isAuthenticated() false: a login that was in flight when the   *)
(* token was cleared does not set it when its response arrives.            *)
(***************************************************************************)
C26_StaysLoggedOut ==
    [][tokenHistory = "cleared"
           => /\ token' = Null
              /\ ~isAuthenticated'
              /\ ~AuthResource_isAuthenticated']_vars

(***************************************************************************)
(* C27: a login that is answered in 2xx by a body without a token, or with *)
(* an empty one, leaves the token of the client as it was, set or not, and *)
(* returns the body of the response.                                       *)
(***************************************************************************)
C27_TokenKept ==
    [][(/\ last' # last
        /\ last'.op = "method"
        /\ last'.caller = "login"
        /\ last'.args[1][1] = "response"
        /\ ValidateStatus(Prop(last'.args[1][2], "status"))
        /\ ~Has(Prop(last'.args[1][2], "data"), "token"))
           => /\ token' = token
              /\ last'.kind = "returned"
              /\ last'.outcome = Return(Prop(last'.args[1][2], "data"))]_vars

\* a request that declares no Authorization header of its own
Undeclared == [headers |-> DefaultHeaders, payload |-> Obj(NoProps), method |-> "get",
               url |-> Str("/test")]

\* the request interceptor would put a Bearer header into the next such request
WouldInject ==
    Header(RequestInterceptor(token, Undeclared).headers, "Authorization") = Bearer(token)

(***************************************************************************)
(* C28: in every state, also after setToken("") and after construction     *)
(* with an empty or absent token, isAuthenticated() of the client and of   *)
(* the auth resource is true exactly when the request interceptor would    *)
(* put a Bearer header into the next request that declares no              *)
(* Authorization header; and a request sent by a client constructed        *)
(* without that header carries one exactly when isAuthenticated() is true. *)
(***************************************************************************)
C28_AuthenticatedIffInjects ==
    /\ isAuthenticated <=> WouldInject
    /\ AuthResource_isAuthenticated <=> WouldInject
    /\ last.kind = "sent" /\ "Authorization" \notin DOMAIN config.headers
           => (isAuthenticated <=> Header(SentHeaders, "Authorization") = Bearer(token))

\* a client given the empty string by setToken sent a request without the
\* header and is not authenticated
C28_Witness ==
    /\ last.kind = "sent"
    /\ "Authorization" \notin DOMAIN config.headers
    /\ token = Str("")
    /\ tokenHistory = "set"
    /\ "Authorization" \notin DOMAIN SentHeaders
    /\ ~isAuthenticated

\* the methods of one argument reject this marketId, or this username, as missing
MissingMarketId(v) ==
    /\ markets_get(v)[1] = "throw"
    /\ markets_getBets(v)[1] = "throw"
    /\ markets_getPositions(v)[1] = "throw"
    /\ getUserPosition(v)[1] = "throw"

MissingUsername(v) == users_getPublicInfo(v)[1] = "throw"

(***************************************************************************)
(* C29: a marketId or a username that the methods of one argument reject   *)
(* as missing is rejected by the methods that check it with                *)
(* validateRequired too: getUserPositions, projectProbability, resolve and *)
(* placeBet send no request with such an identifier.                       *)
(***************************************************************************)
C29_SameAbsence ==
    last.kind = "called" =>
        /\ last.op = "markets.getUserPositions"
               => ~MissingMarketId(last.args[1]) /\ ~MissingUsername(last.args[2])
        /\ last.op = "markets.resolve" => ~MissingMarketId(last.args[1])
        /\ last.op \in {"markets.projectProbability", "betting.placeBet"}
               => ~MissingMarketId(Prop(last.args[1], "marketId"))

\* the body of the request the last operation handed to axios
SentBody == last.request[2].payload

\* the methods that send the object they are given
BodyMethods ==
    {"betting.placeBet", "betting.sellPosition", "users.changePassword", "admin.createUser"}

(***************************************************************************)
(* C30: a resource method leaves the objects it is given as they were,     *)
(* whether it throws or sends. markets.create sends a body with the fields *)
(* of marketData and their values, but for resolutionDateTime, which       *)
(* carries the formatted value in the body only; placeBet, sellPosition,   *)
(* changePassword and createUser send a body equal to the object given.    *)
(***************************************************************************)
C30_InputUnchanged ==
    /\ last.caller \in {"resource", "login"} /\ last.op \notin Steps
           => last.after = last.args
    /\ last.kind = "called" /\ last.op \in BodyMethods
           => SentBody = last.args[1] /\ SentBody = last.after[1]
    /\ last.kind = "called" /\ last.op = "markets.create"
           => LET marketData == last.after[1][2]
                  data == SentBody[2]
              IN  /\ DOMAIN data = DOMAIN marketData
                  /\ \A f \in DOMAIN data \ {"resolutionDateTime"} : data[f] = marketData[f]
                  /\ formatDate(marketData.resolutionDateTime)
                         = Return(data.resolutionDateTime)
                  /\ marketData.resolutionDateTime = last.args[1][2].resolutionDateTime

\* markets.create was given a Date: the body carries the timestamp, the object
\* of the caller still the Date
C30_Witness ==
    /\ last.op = "markets.create"
    /\ last.kind = "called"
    /\ last.after[1][2].resolutionDateTime = Date(20376, 43200000)
    /\ SentBody[2].resolutionDateTime = Str("2025-10-15T12:00:00.000Z")
    /\ SentBody[2].questionTitle = Str("New Market")

====
